---- MODULE Spec2Model ----
(***************************************************************************)
(* CloudIoTPy: store-and-forward of telemetry.                             *)
(*                                                                         *)
(* The model covers OfflineStorageService (add_message / flush_data), the  *)
(* two OfflineStorage backends (JSON file, SQLite table), the endpoint's   *)
(* connection flag (AWSIoTClient / AzureIoTClient) and IoTManager          *)
(* (connect / reconnect / disconnect / send_telemetry / start) together    *)
(* with the acquisition thread of SensorReadingService.                    *)
(*                                                                         *)
(* Two threads run: "main" (the application's thread) and "acq" (the       *)
(* SensorReadingServiceThread).  Every step that the code runs under one   *)
(* lock acquisition, or between two blocking points, is one action.        *)
(***************************************************************************)
EXTENDS Integers, Sequences, FiniteSets, TLC

\* ------------------------------------------------------------------ bounds
\* Messages handed to send_telemetry / add_message during one run.
MaxMsgs == 3
\* Records already in the backend when the process starts (SpecFlush).
MaxBacklog == 11
\* The value config.get_max_retries() returns in the modelled runs.
MaxRetries == 2
\* Rows already in the table when the process starts (SpecCorrupt).
MaxCorruptLen == 3
\* Records an earlier run left behind when the device is started.
MaxFairBacklog == 1
\* Messages in one add_messages call (SpecBackend).
MaxAddLen == 2
\* The loop threads one run of the service may create (SpecSensor).
MaxLoops == 2
\* The commands one run receives (SpecCommand).
MaxCommands == 2

\* flush_data: self._storage.load_messages(limit=10)
BATCH_SIZE == 10

\* reconnect: base_delay = 2.0 seconds, counted in tenths of a second.
BASE_DELAY == 20

\* The send calls followed within one flush_data call: more than any flush
\* that removes what it sent can make.
MaxSends == MaxBacklog + MaxMsgs + 1

Threads == {"main", "acq"}
Vals == {1, 2}
Kinds == {"json", "sqlite"}
NoThread == "none"
NoMsg == [uid |-> 0, val |-> 0]
\* The cloud-specific client _create_iot_client builds.  IoTManager and the
\* offline storage service treat both alike, so the pipeline is followed with
\* one of them; the client itself is followed with each (SpecClient).
Providers == {"aws"}
BothProviders == {"aws", "azure"}
\* What the configuration file may name: the providers and storage types the
\* code knows, and one it does not know of each.
ProviderNames == BothProviders \cup {"gcp"}
StorageTypes == Kinds \cup {"csv"}
\* What a client call has done before it does anything.
NoCalls == [call |-> "none", dials |-> 0, sleeps |-> 0, last |-> 0,
            transport |-> "none", publishes |-> 0]
\* What a start() or shutdown() has done before it does anything: the
\* connect() and reconnect() calls it made, what its connect() returned, and
\* the steps a shutdown() went through.
NoStart == [call |-> "none", connects |-> 0, reconnects |-> 0, first |-> "none",
            steps |-> << >>]

\* A loop thread that was not created yet.  fields is what the cycle's data
\* holds next to the timestamp: "none" before read_all() was called, "empty",
\* or "reading".
NoData == [fields |-> "none", stamped |-> FALSE]
NoLoop == [pc |-> "unborn", slept |-> 0, data |-> NoData, readRaised |-> FALSE]
\* Nothing was called on the service and the callback was never invoked.
NoSensed == [call |-> "none", data |-> NoData, by |-> 0]

\* No command callback is registered and no command was received.
NoCommands == [callback |-> FALSE, log |-> << >>]

\* No direct backend call has been made.
NoOut == [call |-> "none", arg |-> << >>, limit |-> 0, result |-> << >>,
          count |-> 0]

VARIABLES
    kind,           \* the backend _create_offline_storage built: "json" |
                    \* "sqlite", "none" when OfflineStorageService._storage is None
    storage_type,   \* config.get_offline_storage_type()
    storage,        \* the persisted queue: JSON array / rows of offline_messages
    fileExists,     \* JSON: the file exists; SQLite: the table exists
    nextId,         \* SQLite: next AUTOINCREMENT id
    connected,      \* the endpoint's _connected flag
    stable,         \* environment: from now on connect and publish succeed
    writable,       \* environment: writes to the storage location succeed
    hasClient,      \* IoTManager._client / the attached client is not None
    provider,       \* config.get_cloud_provider(): "aws" | "azure"
    hasSensors,     \* SensorReadingService._sensor_manager is not None
    loopRunning,    \* SensorReadingService: the reading thread is alive
    svcLock,        \* OfflineStorageService._lock: holder or NoThread
    beLock,         \* the backend's _lock: holder or NoThread
    pc,             \* per thread: position in the code
    op,             \* per thread: the IoTManager entry point being run
    data,           \* per thread: the message of send_telemetry / add_message
    batch,          \* per thread: flush_data's batch
    success_count,  \* per thread: flush_data's success_count
    attempt,        \* per thread: reconnect's attempt
    flFrom,         \* per thread: who invoked flush_data
    trans,          \* ghost, per thread: the connect before the flush changed
                    \* the endpoint from Disconnected to Connected
    cur,            \* per thread: the backend's local list `current`
    messages,       \* per thread: the argument of a direct add_messages call
    added,          \* ghost: the messages handed to direct add_messages calls
    out,            \* the last direct backend call: its arguments and what
                    \* it returned
    doc,            \* the mapping handed to the last add_messages([m]) call
    path,           \* ghost, per thread: the branch the running send_telemetry took
    ret,            \* per thread: how the send_telemetry / client call the thread
                    \* made last ended ("none" once it has gone on to another call)
    connLock,       \* the client's _connection_lock: holder or NoThread
    max_retries,    \* per thread: the argument of the running client.reconnect
    clog,           \* ghost, per thread: what the running client call did so far
    mlog,           \* ghost: what the application's last start() or shutdown()
                    \* did so far
    q0,             \* ghost, per thread: the backend when the flush took the lock
    log,            \* ghost, per thread: the send calls of the running flush
    accepted,       \* ghost: the messages the endpoint has accepted
    submitted,      \* ghost: messages handed in so far (gives each its uid)
    enqueued,       \* ghost: records stored so far (gives each its seq)
    stop_event,     \* SensorReadingService._stop_event is set
    thread,         \* SensorReadingService._thread: a loop thread, 0 for None
    loops,          \* the _reading_loop threads created so far: position,
                    \* seconds slept, the data of the running cycle
    caller,         \* the thread calling start() / stop(): its position
    on_new_data,    \* SensorReadingService._on_new_data is not None
    told,           \* ghost: the loop threads alive when a stop() set the event
    sensed,         \* ghost: the last start()/stop() outcome and the last data
                    \* handed to the callback
    cmd             \* the client's _command_callback is set, and (ghost) what
                    \* became of each command received so far

vars == << kind, storage_type, storage, fileExists, nextId, connected, stable, writable,
           hasClient, provider, hasSensors, path, ret, connLock, max_retries,
           clog, mlog, loopRunning,
           svcLock, beLock, pc, op, data, batch, success_count, attempt,
           flFrom, trans, cur, messages, added, out, doc, q0, log, accepted,
           submitted,
           enqueued, stop_event, thread, loops, caller, on_new_data, told,
           sensed, cmd >>

sensorVars == << stop_event, thread, loops, caller, on_new_data, told, sensed >>
envVars == << kind, storage_type, stable, writable, hasClient, provider, hasSensors,
             sensorVars, cmd >>
sendVars == << path, ret >>
clientVars == << connLock, max_retries, clog, mlog >>
ghostFlush == << q0, log >>
beVars == << cur, messages, added, out, doc >>

Min(a, b) == IF a < b THEN a ELSE b

\* No mapping was handed in yet.
NoDoc == [key \in {} |-> [t |-> "none", v |-> 0]]

\* ------------------------------------------------------- stored records
\* A stored record.  id is the SQLite row id (0 on the JSON backend, which
\* stores the bare message); ok tells whether the stored text decodes to a
\* mapping; uid and seq are ghosts (submission and enqueue order).
Row(id, m, seq) == [id |-> id, uid |-> m.uid, val |-> m.val, seq |-> seq, ok |-> TRUE]

\* The records an earlier run left behind: n well-formed records, oldest first
\* (their ghost uids are negative: this run's messages are numbered from 1).
Backlog(k, n) ==
    [i \in 1..n |-> [id |-> IF k = "sqlite" THEN i ELSE 0,
                     uid |-> i - 1 - n, val |-> ((i - 1) % 2) + 1, seq |-> i,
                     ok |-> TRUE]]


\* ------------------------------------------------- JSONOfflineStorage
\* Python's dict equality on two decoded messages: the stored value decides,
\* not which enqueue produced it.
DictEq(a, b) == a.val = b.val

\* json.load(f) reads the file as one document: it succeeds only when the
\* text of every record in it is intact.
Decodes(content) == \A i \in 1..Len(content) : content[i].ok

\* _load_entire_list: the file's array; [] when the file is missing and,
\* through handle_exceptions(default_return_value=[]), when json.load raises.
LoadEntireList(exists, content) ==
    IF exists /\ Decodes(content) THEN content ELSE << >>

\* Mutant of Extend: the new messages replace the list instead of extending it.
ExtendFromEmpty(current, msgs, seq0) ==
    [i \in 1..Len(msgs) |-> Row(0, msgs[i], seq0 + i)]

\* current.extend(messages)
Extend(current, msgs, seq0) ==
    current \o [i \in 1..Len(msgs) |-> Row(0, msgs[i], seq0 + i)]

\* Mutant of FirstIndexOf: the last element equal to msg.
LastIndexOf(current, msg) ==
    IF \E i \in 1..Len(current) : DictEq(current[i], msg)
    THEN CHOOSE i \in 1..Len(current) :
            /\ DictEq(current[i], msg)
            /\ \A j \in (i + 1)..Len(current) : ~DictEq(current[j], msg)
    ELSE 0

\* list.index of the first element equal to msg, 0 when `msg in current` is false.
FirstIndexOf(current, msg) ==
    IF \E i \in 1..Len(current) : DictEq(current[i], msg)
    THEN CHOOSE i \in 1..Len(current) :
            /\ DictEq(current[i], msg)
            /\ \A j \in 1..(i - 1) : ~DictEq(current[j], msg)
    ELSE 0

RemoveAt(s, i) == SubSeq(s, 1, i - 1) \o SubSeq(s, i + 1, Len(s))

\* remove_messages' loop: for msg in messages: if msg in current: current.remove(msg)
RECURSIVE JsonRemoveEach(_, _)
JsonRemoveEach(current, msgs) ==
    IF msgs = << >> THEN current
    ELSE LET i == FirstIndexOf(current, Head(msgs))
         IN  JsonRemoveEach(IF i = 0 THEN current ELSE RemoveAt(current, i), Tail(msgs))

Reverse(q) == [i \in 1..Len(q) |-> q[Len(q) + 1 - i]]

\* Mutant of JsonLoad: the newest messages come first.
JsonLoadNewestFirst(current, limit) ==
    IF limit <= 0 THEN Reverse(current)
    ELSE SubSeq(Reverse(current), 1, Min(limit, Len(current)))

\* Mutant of JsonLoad: the limit is not applied.
JsonLoadAll(current, limit) == current

\* load_messages: current if limit <= 0, current[:limit] otherwise.
JsonLoad(current, limit) ==
    IF limit <= 0 THEN current ELSE SubSeq(current, 1, Min(limit, Len(current)))

\* ------------------------------------------------ SQLiteOfflineStorage
\* Mutant of SqlInsert: the new rows come before the old ones.
SqlInsertFront(rows, msgs, nid, seq0) ==
    [i \in 1..Len(msgs) |-> Row(nid + i - 1, msgs[i], seq0 + i)] \o rows

\* INSERT INTO offline_messages (data) VALUES (?) for each message.
SqlInsert(rows, msgs, nid, seq0) ==
    rows \o [i \in 1..Len(msgs) |-> Row(nid + i - 1, msgs[i], seq0 + i)]

\* Mutant of SqlSelect: ORDER BY id DESC.
SqlSelectDesc(rows, limit) ==
    IF limit > 0 THEN SubSeq(Reverse(rows), 1, Min(limit, Len(rows)))
    ELSE Reverse(rows)

\* SELECT id, data FROM offline_messages ORDER BY id ASC [LIMIT ?]
SqlSelect(rows, limit) ==
    IF limit > 0 THEN SubSeq(rows, 1, Min(limit, Len(rows))) ELSE rows

\* json.loads(raw_json); parsed["_db_id"] = row_id: a row that does not decode
\* to a mapping is logged and left out of the result.
SqlDecoded(rows) == SelectSeq(rows, LAMBDA r : r.ok)

SqlLoad(rows, limit) == SqlDecoded(SqlSelect(rows, limit))

\* The row ids remove_messages collects: msg.get("_db_id") when it is an int.
SqlRowIds(msgs) == { msgs[i].id : i \in { j \in 1..Len(msgs) : msgs[j].id > 0 } }

\* DELETE FROM offline_messages WHERE id IN (...)
SqlDelete(rows, ids) == SelectSeq(rows, LAMBDA r : r.id \notin ids)

\* --------------------------------------- the backend behind the service
\* OfflineStorage.load_messages(limit)
LoadMessages(limit) ==
    IF kind = "json" THEN JsonLoad(LoadEntireList(fileExists, storage), limit)
    ELSE SqlLoad(storage, limit)

\* Mutant of FileAfterSave: an empty list is written to the file as well.
FileAfterSaveAlways(all) == TRUE

\* _save_entire_list: `if not all_data:` the file is unlinked, else written.
FileAfterSave(all) == all # << >>

\* _save_entire_list: an empty list unlinks the file, any other overwrites it.
\* When the location cannot be written the OSError is swallowed by
\* handle_exceptions and the file stays as it was.
SaveEntireList(all) ==
    IF writable
    THEN /\ storage' = all
         /\ fileExists' = FileAfterSave(all)
    ELSE UNCHANGED << storage, fileExists >>

\* Mutant of NothingToAdd: add_messages goes on with an empty list.
NothingToAddNever(msgs) == FALSE

\* add_messages: `if not messages: return`
NothingToAdd(msgs) == msgs = << >>

\* OfflineStorage.add_messages(messages), run to completion under the backend
\* lock.  A failed write (swallowed by handle_exceptions) stores nothing.
AddMessages(msgs) ==
    IF NothingToAdd(msgs)
    THEN UNCHANGED << storage, fileExists, nextId, enqueued >>
    ELSE IF ~writable
    THEN UNCHANGED << storage, fileExists, nextId, enqueued >>
    ELSE /\ enqueued' = enqueued + Len(msgs)
         /\ IF kind = "json"
            THEN /\ SaveEntireList(Extend(LoadEntireList(fileExists, storage), msgs, enqueued))
                 /\ UNCHANGED nextId
            ELSE /\ storage' = SqlInsert(storage, msgs, nextId, enqueued)
                 /\ nextId' = nextId + Len(msgs)
                 /\ UNCHANGED fileExists

\* OfflineStorage.remove_messages(messages), run to completion under the backend lock.
RemoveMessages(msgs) ==
    /\ UNCHANGED << nextId, enqueued >>
    /\ IF msgs = << >>
       THEN UNCHANGED << storage, fileExists >>
       ELSE IF kind = "json"
            THEN SaveEntireList(JsonRemoveEach(LoadEntireList(fileExists, storage), msgs))
            ELSE IF SqlRowIds(msgs) = {} \/ ~writable
                 THEN UNCHANGED << storage, fileExists >>
                 ELSE /\ storage' = SqlDelete(storage, SqlRowIds(msgs))
                      /\ UNCHANGED fileExists


\* ------------------------------------------------------------ endpoint
\* What the transport can answer: anything until the link is stable.
Outcomes == IF stable THEN {TRUE} ELSE BOOLEAN

\* client.connect(): True at once when _connected, else one attempt.
ConnectResults == IF connected THEN {TRUE} ELSE Outcomes

\* client.send_telemetry(): False when not connected, else the publish result.
SendResults == IF connected THEN Outcomes ELSE {FALSE}

\* --------------------------------------------------- IoTManager returns
\* Mutant of FlushAfterConnect: flush_data() runs whatever the client returned.
FlushAlways(r) == TRUE

\* IoTManager.connect / reconnect: flush_data() runs when the client call
\* returned True.
FlushAfterConnect(r) == r

\* Where IoTManager.connect() returns to: start() goes on to reconnect()
\* when connect() failed and to the sensor service when it succeeded.
AfterConnect(t, r) ==
    IF op[t] = "start" THEN (IF r THEN "ms_sensor" ELSE "mr_check") ELSE "idle"

\* Where IoTManager.reconnect() returns to.
AfterReconnect(t) == IF op[t] = "start" THEN "ms_sensor" ELSE "idle"

\* Where flush_data() returns to.
AfterFlush(t) ==
    CASE flFrom[t] = "connect"   -> AfterConnect(t, TRUE)
      [] flFrom[t] = "reconnect" -> AfterReconnect(t)
      [] OTHER                   -> "idle"

\* The pc a thread gets when an entry point returns: op is cleared with it.
Goto(t, l) ==
    /\ pc' = [pc EXCEPT ![t] = l]
    /\ op' = [op EXCEPT ![t] = IF l = "idle" THEN "none" ELSE op[t]]

diskVars == << storage, fileExists, nextId, enqueued >>
lockVars == << svcLock, beLock >>
flushVars == << batch, success_count, flFrom, trans, q0, log >>

\* ---------------------------------------------- IoTManager.send_telemetry
\* A caller hands a new message to send_telemetry.
CallSendTelemetry(t, v) ==
    /\ pc[t] = "idle"
    /\ submitted < MaxMsgs
    /\ submitted' = submitted + 1
    /\ data' = [data EXCEPT ![t] = [uid |-> submitted + 1, val |-> v]]
    /\ pc' = [pc EXCEPT ![t] = "st_check"]
    /\ op' = [op EXCEPT ![t] = "send"]
    /\ path' = [path EXCEPT ![t] = "none"]
    /\ ret' = [ret EXCEPT ![t] = "none"]
    /\ mlog' = IF t = "main" THEN NoStart ELSE mlog
    /\ UNCHANGED << envVars, connLock, max_retries, clog, diskVars, lockVars, flushVars, connected,
                    loopRunning, attempt, beVars, accepted >>

\* The application calls IoTManager.send_telemetry(data).
SendTelemetry(v) == CallSendTelemetry("main", v)

\* _reading_loop -> _handle_sensor_data -> send_telemetry(data).
HandleSensorData(v) == loopRunning /\ CallSendTelemetry("acq", v)

\* Mutant of SendBranch: the send is attempted whatever is_connected() says.
SendBranchAlways(c) == "st_send"

\* send_telemetry: `if not self.is_connected()` goes on to add_message,
\* otherwise the send is attempted.
SendBranch(c) == IF c THEN "st_send" ELSE "am_lock"

\* if not self.is_connected(): store offline, else go on to send.  With
\* self._client None, self._client.is_connected() raises AttributeError to
\* the caller of send_telemetry.
StCheck(t) ==
    /\ pc[t] = "st_check"
    /\ IF ~hasClient
       THEN /\ ret' = [ret EXCEPT ![t] = "raised"]
            /\ data' = [data EXCEPT ![t] = NoMsg]
            /\ Goto(t, "idle")
            /\ UNCHANGED path
       ELSE /\ pc' = [pc EXCEPT ![t] = SendBranch(connected)]
            /\ path' = [path EXCEPT ![t] = IF connected THEN "none" ELSE "offline"]
            /\ UNCHANGED << op, data, ret >>
    /\ UNCHANGED << envVars, clientVars, diskVars, lockVars, flushVars, connected,
                    loopRunning, attempt, beVars, accepted, submitted >>

\* sent = self._client.send_telemetry(data); if not sent: store offline.
StSend(t) ==
    /\ pc[t] = "st_send"
    /\ \E r \in SendResults :
          IF r
          THEN /\ accepted' = accepted \cup
                      {[uid |-> data[t].uid, seq |-> 0, via |-> "direct"]}
               /\ data' = [data EXCEPT ![t] = NoMsg]
               /\ ret' = [ret EXCEPT ![t] = "true"]
               /\ Goto(t, "idle")
               /\ UNCHANGED path
          ELSE /\ pc' = [pc EXCEPT ![t] = "am_lock"]
               /\ path' = [path EXCEPT ![t] = "sent_fail"]
               /\ UNCHANGED << accepted, data, op, ret >>
    /\ UNCHANGED << envVars, clientVars, diskVars, lockVars, flushVars, connected,
                    loopRunning, attempt, beVars, submitted >>

\* ------------------------------------ OfflineStorageService.add_message
\* The application calls the service's add_message(data) itself.
AddMessage(v) ==
    /\ pc["main"] = "idle"
    /\ submitted < MaxMsgs
    /\ submitted' = submitted + 1
    /\ data' = [data EXCEPT !["main"] = [uid |-> submitted + 1, val |-> v]]
    /\ pc' = [pc EXCEPT !["main"] = "am_lock"]
    /\ op' = [op EXCEPT !["main"] = "add"]
    /\ ret' = [ret EXCEPT !["main"] = "none"]
    /\ mlog' = NoStart
    /\ UNCHANGED << envVars, path, connLock, max_retries, clog, diskVars, lockVars, flushVars, connected,
                    loopRunning, attempt, beVars, accepted >>

\* Mutant of SvcLockFree: the service lock is not taken.
SvcLockIgnored == TRUE

\* `with self._lock:` can be entered.
SvcLockFree == svcLock = NoThread

\* Mutant of ReleasedSvc: the lock is kept when the `with` block is left.
ReleasedSvcNever(t) == svcLock

\* The end of `with self._lock:` in add_message and flush_data.
ReleasedSvc(t) == IF svcLock = t THEN NoThread ELSE svcLock

\* The backend's methods run under the backend's own lock: the service's
\* call goes on when no other caller is inside the backend.
BackendLockFree == beLock = NoThread

\* What add_message's caller returns next: send_telemetry returns False,
\* a direct add_message call just returns.
AfterAdd(t) == [ret EXCEPT ![t] = IF op[t] = "send" THEN "false" ELSE ret[t]]

\* add_message: `if not self._storage: return` (the message is discarded),
\* else `with self._lock:`.
AmLock(t) ==
    /\ pc[t] = "am_lock"
    /\ IF kind = "none"
       THEN /\ data' = [data EXCEPT ![t] = NoMsg]
            /\ ret' = AfterAdd(t)
            /\ path' = [path EXCEPT ![t] = "none"]
            /\ Goto(t, "idle")
            /\ UNCHANGED svcLock
       ELSE /\ SvcLockFree
            /\ svcLock' = t
            /\ pc' = [pc EXCEPT ![t] = "am_add"]
            /\ UNCHANGED << op, data, sendVars >>
    /\ UNCHANGED << envVars, clientVars, diskVars, beLock, flushVars, connected,
                    loopRunning, attempt, beVars, accepted, submitted >>

\* add_message: self._storage.add_messages([data]), then the lock is released.
AmAdd(t) ==
    /\ pc[t] = "am_add"
    /\ BackendLockFree
    /\ AddMessages(<< data[t] >>)
    /\ svcLock' = ReleasedSvc(t)
    /\ data' = [data EXCEPT ![t] = NoMsg]
    /\ ret' = AfterAdd(t)
    /\ path' = [path EXCEPT ![t] = "none"]
    /\ Goto(t, "idle")
    /\ UNCHANGED << envVars, clientVars, beLock, flushVars, connected, loopRunning,
                    attempt, beVars, accepted, submitted >>


\* ------------------------------------------------- IoTManager.connect
\* The application calls IoTManager.connect().
Connect ==
    /\ pc["main"] = "idle"
    /\ pc' = [pc EXCEPT !["main"] = "mc_connect"]
    /\ op' = [op EXCEPT !["main"] = "connect"]
    /\ ret' = [ret EXCEPT !["main"] = "none"]
    /\ mlog' = NoStart
    /\ UNCHANGED << envVars, path, connLock, max_retries, clog, diskVars, lockVars, flushVars, connected,
                    loopRunning, data, attempt, beVars, accepted, submitted >>

\* The application calls IoTManager.start(): connect() comes first.
Start ==
    /\ pc["main"] = "idle"
    /\ ~loopRunning
    /\ pc' = [pc EXCEPT !["main"] = "mc_connect"]
    /\ op' = [op EXCEPT !["main"] = "start"]
    /\ ret' = [ret EXCEPT !["main"] = "none"]
    /\ mlog' = [NoStart EXCEPT !.call = "start"]
    /\ UNCHANGED << envVars, path, connLock, max_retries, clog, diskVars, lockVars, flushVars, connected,
                    loopRunning, data, attempt, beVars, accepted, submitted >>

\* IoTManager.connect: `if success: self._offline_service.flush_data()`.
ConnectReturns(t, r, tr) ==
    IF FlushAfterConnect(r)
    THEN /\ pc' = [pc EXCEPT ![t] = "fl_check"]
         /\ flFrom' = [flFrom EXCEPT ![t] = "connect"]
         /\ trans' = [trans EXCEPT ![t] = tr]
         /\ UNCHANGED op
    ELSE /\ Goto(t, AfterConnect(t, r))
         /\ UNCHANGED << flFrom, trans >>

\* With self._client None the call on it raises AttributeError, which leaves
\* the IoTManager entry point (connect, reconnect, start) at once.
Raises(t) ==
    /\ ret' = [ret EXCEPT ![t] = "raised"]
    /\ Goto(t, "idle")

\* success = self._client.connect(), one attempt under the connection lock.
McConnect(t) ==
    /\ pc[t] = "mc_connect"
    /\ IF ~hasClient
       THEN /\ Raises(t)
            /\ mlog' = IF op[t] = "start"
                       THEN [mlog EXCEPT !.connects = @ + 1, !.first = "raised"]
                       ELSE mlog
            /\ UNCHANGED << connected, flFrom, trans >>
       ELSE /\ \E r \in ConnectResults :
                  /\ connected' = r
                  /\ ConnectReturns(t, r, ~connected /\ r)
                  /\ mlog' = IF op[t] = "start"
                             THEN [mlog EXCEPT !.connects = @ + 1,
                                               !.first = IF r THEN "true" ELSE "false"]
                             ELSE mlog
            /\ UNCHANGED ret
    /\ UNCHANGED << envVars, path, connLock, max_retries, clog, diskVars, lockVars,
                    batch, success_count, q0, log,
                    loopRunning, data, attempt, beVars, accepted, submitted >>

\* ----------------------------------------------- IoTManager.reconnect
\* The application calls IoTManager.reconnect().
Reconnect ==
    /\ pc["main"] = "idle"
    /\ pc' = [pc EXCEPT !["main"] = "mr_check"]
    /\ op' = [op EXCEPT !["main"] = "reconnect"]
    /\ ret' = [ret EXCEPT !["main"] = "none"]
    /\ mlog' = NoStart
    /\ UNCHANGED << envVars, path, connLock, max_retries, clog, diskVars, lockVars, flushVars, connected,
                    loopRunning, data, attempt, beVars, accepted, submitted >>

\* IoTManager.reconnect: `if success: self._offline_service.flush_data()`.
ReconnectReturns(t, r, tr) ==
    IF FlushAfterConnect(r)
    THEN /\ pc' = [pc EXCEPT ![t] = "fl_check"]
         /\ flFrom' = [flFrom EXCEPT ![t] = "reconnect"]
         /\ trans' = [trans EXCEPT ![t] = tr]
         /\ UNCHANGED op
    ELSE /\ Goto(t, AfterReconnect(t))
         /\ UNCHANGED << flFrom, trans >>

\* client.reconnect(max_retries): `if self._connected: return True`, else the
\* loop `for attempt in range(1, max_retries + 1)` is entered (or is empty).
MrCheck(t) ==
    /\ pc[t] = "mr_check"
    /\ IF ~hasClient
       THEN Raises(t) /\ UNCHANGED << attempt, flFrom, trans >>
       ELSE /\ UNCHANGED ret
            /\ IF connected
               THEN ReconnectReturns(t, TRUE, FALSE) /\ UNCHANGED attempt
               ELSE IF MaxRetries >= 1
                    THEN /\ pc' = [pc EXCEPT ![t] = "mr_attempt"]
                         /\ attempt' = [attempt EXCEPT ![t] = 1]
                         /\ UNCHANGED << op, flFrom, trans >>
                    ELSE ReconnectReturns(t, FALSE, FALSE) /\ UNCHANGED attempt
    /\ mlog' = IF op[t] = "start"
               THEN [mlog EXCEPT !.reconnects = @ + 1]
               ELSE mlog
    /\ UNCHANGED << envVars, path, connLock, max_retries, clog, diskVars, lockVars,
                    batch, success_count, q0, log,
                    connected, loopRunning, data, beVars, accepted, submitted >>

\* One pass of the loop: `if self.connect(): return True`, else sleep and go
\* on to the next attempt; `return False` after the last one.
MrAttempt(t) ==
    /\ pc[t] = "mr_attempt"
    /\ \E r \in ConnectResults :
          /\ connected' = r
          /\ IF r
             THEN /\ attempt' = [attempt EXCEPT ![t] = 0]
                  /\ ReconnectReturns(t, TRUE, ~connected)
             ELSE IF attempt[t] < MaxRetries
                  THEN /\ attempt' = [attempt EXCEPT ![t] = attempt[t] + 1]
                       /\ UNCHANGED << pc, op, flFrom, trans >>
                  ELSE /\ attempt' = [attempt EXCEPT ![t] = 0]
                       /\ ReconnectReturns(t, FALSE, FALSE)
    /\ UNCHANGED << envVars, sendVars, clientVars, diskVars, lockVars, batch, success_count, q0, log,
                    loopRunning, data, beVars, accepted, submitted >>

\* Mutant of StartsThread: the reading thread is never started.
StartsThreadNever == FALSE

\* SensorReadingService.start: returns at once when the thread is alive or
\* when there is no sensor manager; otherwise it starts the thread.
StartsThread == ~loopRunning /\ hasSensors

\* start(): self._sensor_service.start(), then start() returns.
MsSensor(t) ==
    /\ pc[t] = "ms_sensor"
    /\ loopRunning' = (loopRunning \/ StartsThread)
    /\ Goto(t, "idle")
    /\ UNCHANGED << envVars, sendVars, clientVars, diskVars, lockVars, flushVars, connected,
                    data, attempt, beVars, accepted, submitted >>

\* ---------------------------------------------- IoTManager.disconnect
\* client.disconnect(): under the connection lock, _connected = False.
Disconnect ==
    /\ pc["main"] = "idle"
    /\ connected
    /\ connected' = FALSE
    /\ ret' = [ret EXCEPT !["main"] = "none"]
    /\ mlog' = NoStart
    /\ UNCHANGED << envVars, path, connLock, max_retries, clog, diskVars, lockVars, flushVars, loopRunning,
                    pc, op, data, attempt, beVars, accepted, submitted >>


\* ------------------------------------ OfflineStorageService.flush_data
\* The application calls the service's flush_data() itself.
FlushData ==
    /\ pc["main"] = "idle"
    /\ pc' = [pc EXCEPT !["main"] = "fl_check"]
    /\ op' = [op EXCEPT !["main"] = "flush"]
    /\ flFrom' = [flFrom EXCEPT !["main"] = "direct"]
    /\ trans' = [trans EXCEPT !["main"] = FALSE]
    /\ ret' = [ret EXCEPT !["main"] = "none"]
    /\ mlog' = NoStart
    /\ UNCHANGED << envVars, path, connLock, max_retries, clog, diskVars, lockVars, batch, success_count, q0, log,
                    connected, loopRunning, data, attempt, beVars, accepted, submitted >>

\* Mutant of FlushSkips: flush_data goes on to the lock in every case.
FlushSkipsNever == FALSE

\* flush_data's early returns: `if not self._storage: return` and
\* `if not self._client or not self._client.is_connected(): return`.
FlushSkips == kind = "none" \/ ~hasClient \/ ~connected

FlCheck(t) ==
    /\ pc[t] = "fl_check"
    /\ IF ~FlushSkips
       THEN pc' = [pc EXCEPT ![t] = "fl_lock"] /\ UNCHANGED << op, flFrom, trans >>
       ELSE /\ Goto(t, AfterFlush(t))
            /\ flFrom' = [flFrom EXCEPT ![t] = "none"]
            /\ trans' = [trans EXCEPT ![t] = FALSE]
    /\ UNCHANGED << envVars, sendVars, clientVars, diskVars, lockVars, batch, success_count, q0, log,
                    connected, loopRunning, data, attempt, beVars, accepted, submitted >>

\* flush_data: with self._lock:
FlLock(t) ==
    /\ pc[t] = "fl_lock"
    /\ SvcLockFree
    /\ svcLock' = t
    /\ q0' = [q0 EXCEPT ![t] = storage]
    /\ log' = [log EXCEPT ![t] = << >>]
    /\ pc' = [pc EXCEPT ![t] = "fl_load"]
    /\ UNCHANGED << envVars, sendVars, clientVars, diskVars, beLock, batch, success_count, flFrom,
                    trans, connected, loopRunning, op, data, attempt, beVars,
                    accepted, submitted >>

\* batch = self._storage.load_messages(limit=10); if not batch: break
FlLoad(t) ==
    /\ pc[t] = "fl_load"
    /\ BackendLockFree
    /\ LET b == LoadMessages(BATCH_SIZE)
       IN  /\ batch' = [batch EXCEPT ![t] = b]
           /\ pc' = [pc EXCEPT ![t] = IF b = << >> THEN "fl_exit" ELSE "fl_send"]
    /\ success_count' = [success_count EXCEPT ![t] = 0]
    /\ UNCHANGED << envVars, sendVars, clientVars, diskVars, lockVars, flFrom, trans, q0, log,
                    connected, loopRunning, op, data, attempt, beVars, accepted,
                    submitted >>

\* for msg in batch: if self._client.send_telemetry(msg): success_count += 1
\*                   else: break
\* The payload is the loaded record as it is: on SQLite it carries the
\* '_db_id' key load_messages injected (db_id in the log, 0 when absent).
FlSend(t) ==
    /\ pc[t] = "fl_send"
    /\ Len(log[t]) < MaxSends
    /\ LET msg == batch[t][success_count[t] + 1]
       IN  \E r \in SendResults :
              /\ log' = [log EXCEPT ![t] =
                            Append(@, [seq |-> msg.seq, uid |-> msg.uid,
                                       db_id |-> msg.id, ok |-> r])]
              /\ IF r
                 THEN /\ success_count' = [success_count EXCEPT ![t] = @ + 1]
                      /\ accepted' = accepted \cup
                             {[uid |-> msg.uid, seq |-> msg.seq, via |-> "flush"]}
                      /\ pc' = [pc EXCEPT ![t] =
                             IF success_count[t] + 1 = Len(batch[t])
                             THEN "fl_remove" ELSE "fl_send"]
                 ELSE /\ pc' = [pc EXCEPT ![t] = "fl_remove"]
                      /\ UNCHANGED << success_count, accepted >>
    /\ UNCHANGED << envVars, sendVars, clientVars, diskVars, lockVars, batch, flFrom, trans, q0,
                    connected, loopRunning, op, data, attempt, beVars, submitted >>

\* Mutant of SentPrefix: the whole batch is handed to remove_messages.
SentPrefixWholeBatch(b, n) == b

\* batch[:success_count], the records handed to remove_messages.
SentPrefix(b, n) == SubSeq(b, 1, n)

\* Mutant of StopFlush: the `break` after a failed batch is missing.
StopFlushNever(n, b) == FALSE

\* if success_count < len(batch): break
StopFlush(n, b) == n < Len(b)

\* if success_count > 0: remove_messages(batch[:success_count]); then either
\* break or load the next batch.
FlRemove(t) ==
    /\ pc[t] = "fl_remove"
    /\ success_count[t] > 0 => BackendLockFree
    /\ IF success_count[t] > 0
       THEN RemoveMessages(SentPrefix(batch[t], success_count[t]))
       ELSE UNCHANGED diskVars
    /\ pc' = [pc EXCEPT ![t] =
                 IF StopFlush(success_count[t], batch[t]) THEN "fl_exit" ELSE "fl_load"]
    /\ UNCHANGED << envVars, sendVars, clientVars, lockVars, flushVars, connected, loopRunning, op,
                    data, attempt, beVars, accepted, submitted >>

\* Leaving `with self._lock:`; flush_data returns.
FlExit(t) ==
    /\ pc[t] = "fl_exit"
    /\ svcLock' = ReleasedSvc(t)
    /\ batch' = [batch EXCEPT ![t] = << >>]
    /\ success_count' = [success_count EXCEPT ![t] = 0]
    /\ q0' = [q0 EXCEPT ![t] = << >>]
    /\ log' = [log EXCEPT ![t] = << >>]
    /\ flFrom' = [flFrom EXCEPT ![t] = "none"]
    /\ trans' = [trans EXCEPT ![t] = FALSE]
    /\ Goto(t, AfterFlush(t))
    /\ UNCHANGED << envVars, sendVars, clientVars, diskVars, beLock, connected, loopRunning, data,
                    attempt, beVars, accepted, submitted >>

\* ------------------------------------------------------ specifications
InitThreads ==
    /\ pc = [t \in Threads |-> "idle"]
    /\ op = [t \in Threads |-> "none"]
    /\ data = [t \in Threads |-> NoMsg]
    /\ batch = [t \in Threads |-> << >>]
    /\ success_count = [t \in Threads |-> 0]
    /\ attempt = [t \in Threads |-> 0]
    /\ flFrom = [t \in Threads |-> "none"]
    /\ trans = [t \in Threads |-> FALSE]
    /\ cur = [t \in Threads |-> << >>]
    /\ messages = [t \in Threads |-> << >>]
    /\ path = [t \in Threads |-> "none"]
    /\ ret = [t \in Threads |-> "none"]
    /\ max_retries = [t \in Threads |-> 0]
    /\ clog = [t \in Threads |-> NoCalls]
    /\ q0 = [t \in Threads |-> << >>]
    /\ log = [t \in Threads |-> << >>]

\* SensorReadingService.__init__: the event is clear and there is no thread.
InitService ==
    /\ stop_event = FALSE
    /\ thread = 0
    /\ loops = [i \in 1..MaxLoops |-> NoLoop]
    /\ caller = "idle"
    /\ told = {}
    /\ sensed = NoSensed

\* SQLiteOfflineStorage._init_db under handle_exceptions: the table exists
\* afterwards when the directory and the database could be created
\* (acquired); when they could not, the error is logged and __init__ returns
\* all the same.
InitDb(acquired) == acquired

\* The state after IoTManager() on a backend holding the records `rows`.
InitBuilt(k, rows, w, c, acquired) ==
    /\ kind = k
    /\ storage = rows
    /\ fileExists = IF k = "sqlite" THEN InitDb(acquired) ELSE rows # << >>
    /\ nextId = Len(rows) + 1
    /\ connected = FALSE
    /\ stable = FALSE
    /\ writable = w
    /\ hasClient = c
    /\ connLock = NoThread
    /\ loopRunning = FALSE
    /\ svcLock = NoThread
    /\ beLock = NoThread
    /\ accepted = {}
    /\ added = {}
    /\ submitted = 0
    /\ enqueued = Len(rows)
    /\ mlog = NoStart
    /\ out = NoOut
    /\ doc = NoDoc
    /\ InitThreads
    /\ InitService
    /\ cmd = NoCommands

\* The same on a storage location that could be acquired.
InitBase(k, rows, w, c) == InitBuilt(k, rows, w, c, TRUE)

\* _create_offline_storage: the backend of the configured type; an unknown
\* type is logged and None is returned.
CreateOfflineStorage(ty) == IF ty \in Kinds THEN ty ELSE "none"

\* _create_iot_client under handle_exceptions(default_return_value=None): a
\* client when the provider is known and the client's constructor returns
\* (built); None when the ValueError for an unknown provider, or the
\* constructor's exception, is swallowed.
CreateIotClient(name, built) == name \in BothProviders /\ built

\* A configured type that leaves the service with the backend k.
TypeGiving(k) == IF k \in Kinds THEN k ELSE "csv"

\* The pipeline is followed with one provider's client.
InitEnv(k, rows, w, c) ==
    /\ InitBase(k, rows, w, c)
    /\ storage_type = TypeGiving(k)
    /\ provider \in Providers
    /\ hasSensors = TRUE
    /\ on_new_data = TRUE

\* The same with a working storage location and a client.
InitWith(k, rows) == InitEnv(k, rows, TRUE, TRUE)

\* A fresh device: nothing buffered yet.
Init == \E k \in Kinds : InitWith(k, << >>)

\* The steps of the code a thread is in.
SendSteps(t) == StCheck(t) \/ StSend(t) \/ AmLock(t) \/ AmAdd(t)

FlushSteps(t) ==
    \/ FlCheck(t) \/ FlLock(t) \/ FlLoad(t) \/ FlSend(t) \/ FlRemove(t) \/ FlExit(t)

ConnectSteps(t) == McConnect(t) \/ MrCheck(t) \/ MrAttempt(t) \/ MsSensor(t)

Step(t) == SendSteps(t) \/ ConnectSteps(t) \/ FlushSteps(t)

\* The entry points the application's thread calls.
Calls ==
    \/ \E v \in Vals : SendTelemetry(v)
    \/ \E v \in Vals : AddMessage(v)
    \/ Connect \/ Reconnect \/ Disconnect \/ Start \/ FlushData

Next ==
    \/ Calls
    \/ \E v \in Vals : HandleSensorData(v)
    \/ \E t \in Threads : Step(t)

Spec == Init /\ [][Next]_vars


\* One thread only, on a backend that holds what earlier runs left behind:
\* long enough for flush_data to need more than one batch.
InitFlush == \E k \in Kinds : \E n \in 0..MaxBacklog : InitWith(k, Backlog(k, n))

NextFlush ==
    \/ \E v \in Vals : SendTelemetry(v)
    \/ \E v \in Vals : AddMessage(v)
    \/ Connect \/ Disconnect \/ FlushData
    \/ SendSteps("main") \/ McConnect("main") \/ FlushSteps("main")

SpecFlush == InitFlush /\ [][NextFlush]_vars


\* One thread only, on a SQLite table in which some rows left by an earlier
\* run do not decode (storage corruption at rest).
CorruptBacklog(n, bad) ==
    [i \in 1..n |-> [id |-> i, uid |-> i - 1 - n, val |-> ((i - 1) % 2) + 1,
                     seq |-> i, ok |-> i \notin bad]]

InitCorrupt ==
    \E n \in 0..MaxCorruptLen : \E bad \in SUBSET (1..n) :
        InitWith("sqlite", CorruptBacklog(n, bad))

SpecCorrupt == InitCorrupt /\ [][NextFlush]_vars


\* The device as main.py runs it: the application calls start() and then only
\* waits (signal.pause()); the reading thread hands every reading to
\* send_telemetry; the environment may at some point make the link stable.
\* The backend may hold what an earlier run left behind.
InitFair == \E k \in Kinds : \E n \in 0..MaxFairBacklog : InitWith(k, Backlog(k, n))

\* The environment: from now on every connect and every publish succeeds.
Restore ==
    /\ ~stable
    /\ stable' = TRUE
    /\ UNCHANGED << sensorVars, cmd, kind, storage_type, writable, hasClient, provider, hasSensors, sendVars, clientVars,
                    diskVars,
                    lockVars, flushVars, connected, loopRunning, pc, op, data,
                    attempt, beVars, accepted, submitted >>

\* _reading_loop goes on for as long as the service runs.  Once MaxMsgs
\* readings have been numbered, the later ones are followed on a stable,
\* connected link only (there they are sent directly and nothing more is
\* stored); they share one ghost uid.
SteadyReading(v) ==
    /\ loopRunning
    /\ pc["acq"] = "idle"
    /\ submitted = MaxMsgs
    /\ stable /\ connected
    /\ data' = [data EXCEPT !["acq"] = [uid |-> MaxMsgs + 1, val |-> v]]
    /\ pc' = [pc EXCEPT !["acq"] = "st_check"]
    /\ op' = [op EXCEPT !["acq"] = "send"]
    /\ UNCHANGED << envVars, sendVars, clientVars, diskVars, lockVars, flushVars, connected,
                    loopRunning, attempt, beVars, accepted, submitted >>

\* One pass of `while not self._stop_event.is_set()` that yields a reading.
ReadingLoop == \E v \in Vals : HandleSensorData(v) \/ SteadyReading(v)

NextFair ==
    \/ Start
    \/ Restore
    \/ ReadingLoop
    \/ \E t \in Threads : Step(t)

\* Threads that can run do run, and the reading loop keeps reading.
Fairness ==
    /\ \A t \in Threads : WF_vars(Step(t))
    /\ WF_vars(ReadingLoop)

FairSpec == InitFair /\ [][NextFair]_vars /\ Fairness


\* ------------------------------------- the sensor reading service
\* config.get_read_interval(): max(5, int(interval)), here the least value.
read_interval == 5

\* Everything but the service's own state.
pipelineVars ==
    << kind, storage_type, stable, writable, hasClient, provider, hasSensors,
       sendVars, clientVars, diskVars, lockVars, flushVars, connected, loopRunning,
       pc, op, data, attempt, beVars, accepted, submitted, cmd >>

\* threading.Thread.is_alive(): started and not yet returned from its target.
IsAlive(i) == i # 0 /\ loops[i].pc \notin {"unborn", "dead"}

Alive == { i \in 1..MaxLoops : IsAlive(i) }

\* The threads start() has not created yet.
Unborn == { i \in 1..MaxLoops : loops[i].pc = "unborn" }

\* SensorReadingService.start()
SvcStart ==
    /\ caller = "idle"
    /\ IF IsAlive(thread)
       THEN /\ sensed' = [sensed EXCEPT !.call = "already_running"]
            /\ UNCHANGED << stop_event, thread, loops >>
       ELSE IF ~hasSensors
       THEN /\ sensed' = [sensed EXCEPT !.call = "no_sensor_manager"]
            /\ UNCHANGED << stop_event, thread, loops >>
       ELSE /\ Unborn # {}
            /\ LET new == CHOOSE i \in Unborn : \A j \in Unborn : i <= j
               IN  /\ stop_event' = FALSE
                   /\ thread' = new
                   /\ loops' = [loops EXCEPT ![new].pc = "top"]
            /\ sensed' = [sensed EXCEPT !.call = "started"]
    /\ UNCHANGED << caller, on_new_data, told, pipelineVars >>

\* SensorReadingService.stop() up to the join: nothing to do without a live
\* thread, else the event is set.
SvcStop ==
    /\ caller = "idle"
    /\ IF ~IsAlive(thread)
       THEN /\ sensed' = [sensed EXCEPT !.call = "not_running"]
            /\ UNCHANGED << stop_event, caller, told >>
       ELSE /\ stop_event' = TRUE
            /\ told' = told \cup Alive
            /\ caller' = "join"
            /\ sensed' = [sensed EXCEPT !.call = "stopping"]
    /\ UNCHANGED << thread, loops, on_new_data, pipelineVars >>

\* Where a loop thread can stay longer than join's timeout: inside
\* read_all() and inside the callback.  (Its sleeps last one second.)
Blocking == {"read", "callback"}

\* What join(timeout=2.0) can return on: the thread has ended, or the
\* timeout passed while the thread was blocked.
JoinReturns(i) == ~IsAlive(i) \/ loops[i].pc \in Blocking

\* self._thread.join(timeout=2.0); self._thread = None
SvcJoin ==
    /\ caller = "join"
    /\ JoinReturns(thread)
    /\ sensed' = [sensed EXCEPT !.call = IF IsAlive(thread) THEN "join_timed_out"
                                                           ELSE "stopped"]
    /\ thread' = 0
    /\ caller' = "idle"
    /\ UNCHANGED << stop_event, loops, on_new_data, told, pipelineVars >>

\* while not self._stop_event.is_set(): the loop ends or a cycle begins.
LoopTop(i) ==
    /\ loops[i].pc = "top"
    /\ loops' = [loops EXCEPT ![i] =
                    IF stop_event THEN [NoLoop EXCEPT !.pc = "dead"]
                    ELSE [NoLoop EXCEPT !.pc = "read"]]
    /\ UNCHANGED << stop_event, thread, caller, on_new_data, told, sensed,
                    pipelineVars >>

\* data = {}; try: data = read_all() except Exception: log
ReadAll(raised) == IF raised THEN "empty" ELSE "reading"

\* `if self._on_new_data:` the callback is invoked, else the sleep begins.
AfterStamp == IF on_new_data THEN "callback" ELSE "sleep"

\* read_all() returns or raises; data["timestamp"] = ...
LoopRead(i) ==
    /\ loops[i].pc = "read"
    /\ \E raised \in BOOLEAN :
          loops' = [loops EXCEPT ![i] =
                      [pc |-> AfterStamp, slept |-> 0,
                       data |-> [fields |-> ReadAll(raised), stamped |-> TRUE],
                       readRaised |-> raised]]
    /\ UNCHANGED << stop_event, thread, caller, on_new_data, told, sensed,
                    pipelineVars >>

\* Mutant of AfterCallback: an exception of the callback ends the thread.
AfterCallbackPropagates(raised) == IF raised THEN "dead" ELSE "sleep"

\* try: self._on_new_data(data) except Exception: log
AfterCallback(raised) == "sleep"

\* The callback is given the cycle's data and returns or raises.
LoopCallback(i) ==
    /\ loops[i].pc = "callback"
    /\ \E raised \in BOOLEAN :
          loops' = [loops EXCEPT ![i].pc = AfterCallback(raised)]
    /\ sensed' = [sensed EXCEPT !.data = loops[i].data, !.by = i]
    /\ UNCHANGED << stop_event, thread, caller, on_new_data, told, pipelineVars >>

\* for _ in range(read_interval): if stop_event.is_set(): break; time.sleep(1)
LoopSleep(i) ==
    /\ loops[i].pc = "sleep"
    /\ loops' = [loops EXCEPT ![i] =
                    IF loops[i].slept = read_interval \/ stop_event
                    THEN [@ EXCEPT !.pc = "top"]
                    ELSE [@ EXCEPT !.slept = @ + 1]]
    /\ UNCHANGED << stop_event, thread, caller, on_new_data, told, sensed,
                    pipelineVars >>

LoopStep(i) == LoopTop(i) \/ LoopRead(i) \/ LoopCallback(i) \/ LoopSleep(i)

NextSensor ==
    \/ SvcStart
    \/ SvcStop
    \/ SvcJoin
    \/ \E i \in 1..MaxLoops : LoopStep(i)

\* The service with or without a sensor manager and a callback.
InitSensor ==
    /\ InitBuilt("json", << >>, TRUE, TRUE, TRUE)
    /\ storage_type = "json"
    /\ provider \in Providers
    /\ hasSensors \in BOOLEAN
    /\ on_new_data \in BOOLEAN

SpecSensor == InitSensor /\ [][NextSensor]_vars

\* ------------------------------------------- commands from the cloud
\* Everything but the command state.
nonCommandVars ==
    << kind, storage_type, stable, writable, hasClient, provider, hasSensors,
       sensorVars, sendVars, clientVars, diskVars, lockVars, flushVars, connected,
       loopRunning, pc, op, data, attempt, beVars, accepted, submitted >>

\* on_command(callback)
OnCommand ==
    /\ ~cmd.callback
    /\ cmd' = [cmd EXCEPT !.callback = TRUE]
    /\ UNCHANGED nonCommandVars

\* What the registered callback does with a command: it returns a response,
\* returns None, or raises.
HandlerOutcomes == {"response", "none", "raised"}

\* What became of a command: what its handler did, the responses sent to
\* the remote caller, and whether an exception left the client's callback
\* into the transport that invoked it.
Handled(h, sent, propagated) == [handler |-> h, sent |-> sent, propagated |-> propagated]

\* AWSIoTClient._on_command_message: a payload that is not JSON, a missing
\* callback and a missing 'command' field end it; an exception of the
\* callback is logged and leaves response = None; a response that is not
\* None is published, and a publish error is logged.
AwsOnCommandMessage(payload, h, published) ==
    IF payload # "command" \/ ~cmd.callback
    THEN Handled("not_called", << >>, FALSE)
    ELSE IF h = "response"
         THEN Handled(h, IF published THEN << "response" >> ELSE << >>, FALSE)
         ELSE Handled(h, << >>, FALSE)

\* request.send_response: the statuses that got through, and whether a
\* failing send raised out of the handler.  Only the send of the 200
\* response is inside a try.
AzureHandleMethodRequest(h, ok200, ok500or404) ==
    IF cmd.callback /\ h = "raised"
    THEN Handled(h, IF ok500or404 THEN << "500" >> ELSE << >>, ~ok500or404)
    ELSE IF cmd.callback /\ h = "response"
         THEN IF ok200 THEN Handled(h, << "200" >>, FALSE)
              ELSE Handled(h, IF ok500or404 THEN << "500" >> ELSE << >>, ~ok500or404)
         ELSE Handled(IF cmd.callback THEN h ELSE "not_called",
                      IF ok500or404 THEN << "404" >> ELSE << >>, ~ok500or404)

\* The transport invokes the client's callback with a command.
ReceiveCommand ==
    /\ Len(cmd.log) < MaxCommands
    /\ \E h \in HandlerOutcomes : \E a \in BOOLEAN : \E b \in BOOLEAN :
       \E payload \in {"command", "not_json", "no_name"} :
          cmd' = [cmd EXCEPT !.log = Append(@,
                    IF provider = "aws" THEN AwsOnCommandMessage(payload, h, a)
                    ELSE AzureHandleMethodRequest(h, a, b))]
    /\ UNCHANGED nonCommandVars

NextCommand == OnCommand \/ ReceiveCommand

InitCommand ==
    /\ InitBase("json", << >>, TRUE, TRUE)
    /\ storage_type = "json"
    /\ provider \in BothProviders
    /\ hasSensors = TRUE
    /\ on_new_data = TRUE

SpecCommand == InitCommand /\ [][NextCommand]_vars

\* ------------------------------- the backend under concurrent callers
\* The lists a caller may hand to add_messages: up to MaxAddLen values.
ValLists == UNION { [1..n -> Vals] : n \in 0..MaxAddLen }

\* A thread calls add_messages(messages) on the backend instance itself:
\* `if not messages: return`, else it goes on to the lock.
CallAddMessages(t, vs) ==
    /\ pc[t] = "idle"
    /\ submitted + Len(vs) <= MaxMsgs
    /\ LET ms == [i \in 1..Len(vs) |-> [uid |-> submitted + i, val |-> vs[i]]]
       IN  /\ added' = added \cup { ms[i] : i \in 1..Len(ms) }
           /\ IF ms = << >>
              THEN UNCHANGED << pc, op, messages >>
              ELSE /\ pc' = [pc EXCEPT ![t] = "ba_lock"]
                   /\ op' = [op EXCEPT ![t] = "add_messages"]
                   /\ messages' = [messages EXCEPT ![t] = ms]
    /\ submitted' = submitted + Len(vs)
    /\ UNCHANGED << out, doc, envVars, sendVars, clientVars, diskVars, lockVars, flushVars, connected,
                    loopRunning, data, attempt, cur, accepted >>

\* Mutant of BeLockFree: the backend lock is not taken.
BeLockIgnored == TRUE

\* `with self._lock:` of the backend can be entered.
BeLockFree == beLock = NoThread

\* add_messages: with self._lock [, sqlite3.connect(self.path) as conn]:
BaLock(t) ==
    /\ pc[t] = "ba_lock"
    /\ BeLockFree
    /\ beLock' = t
    /\ pc' = [pc EXCEPT ![t] = IF kind = "json" THEN "ba_load" ELSE "ba_insert"]
    /\ UNCHANGED << envVars, sendVars, clientVars, diskVars, svcLock, flushVars, connected,
                    loopRunning, op, data, attempt, beVars, accepted, submitted >>

\* JSON: current = self._load_entire_list()
BaLoad(t) ==
    /\ pc[t] = "ba_load"
    /\ cur' = [cur EXCEPT ![t] = LoadEntireList(fileExists, storage)]
    /\ pc' = [pc EXCEPT ![t] = "ba_save"]
    /\ UNCHANGED << out, doc, envVars, sendVars, clientVars, diskVars, lockVars, flushVars, connected,
                    loopRunning, op, data, attempt, messages, added, accepted,
                    submitted >>

\* JSON: current.extend(messages); self._save_entire_list(current); the lock
\* is released and add_messages returns.
BaSave(t) ==
    /\ pc[t] = "ba_save"
    /\ SaveEntireList(Extend(cur[t], messages[t], enqueued))
    /\ enqueued' = enqueued + Len(messages[t])
    /\ beLock' = IF beLock = t THEN NoThread ELSE beLock
    /\ cur' = [cur EXCEPT ![t] = << >>]
    /\ messages' = [messages EXCEPT ![t] = << >>]
    /\ Goto(t, "idle")
    /\ UNCHANGED << out, doc, envVars, sendVars, clientVars, nextId, svcLock, flushVars, connected, loopRunning,
                    data, attempt, added, accepted, submitted >>

\* SQLite: BEGIN, one INSERT per message, conn.commit(); the lock is released
\* and add_messages returns.  The transaction commits as a whole.
BaInsert(t) ==
    /\ pc[t] = "ba_insert"
    /\ storage' = SqlInsert(storage, messages[t], nextId, enqueued)
    /\ nextId' = nextId + Len(messages[t])
    /\ enqueued' = enqueued + Len(messages[t])
    /\ beLock' = IF beLock = t THEN NoThread ELSE beLock
    /\ messages' = [messages EXCEPT ![t] = << >>]
    /\ Goto(t, "idle")
    /\ UNCHANGED << out, doc, envVars, sendVars, clientVars, fileExists, svcLock, flushVars, connected,
                    loopRunning, data, attempt, cur, added, accepted, submitted >>

BackendSteps(t) == BaLock(t) \/ BaLoad(t) \/ BaSave(t) \/ BaInsert(t)

\* Several threads call add_messages on one backend instance.
NextBackend ==
    \E t \in Threads :
        \/ \E vs \in ValLists : CallAddMessages(t, vs)
        \/ BackendSteps(t)

SpecBackend == Init /\ [][NextBackend]_vars

\* One thread only, under every configuration IoTManager() accepts: the
\* offline storage may be disabled (no path, unknown type: _storage is None)
\* and the client may be missing (_create_iot_client returned None).
InitConfig ==
    \E k \in Kinds \cup {"none"} : \E c \in BOOLEAN : \E n \in 0..MaxFairBacklog :
        InitEnv(k, IF k = "none" THEN << >> ELSE Backlog(k, n), TRUE, c)

SpecConfig == InitConfig /\ [][NextFlush]_vars

\* IoTManager() under every provider name and storage type the configuration
\* file may hold: Init is what __init__ leaves behind when it returns.
InitConstruct ==
    \E name \in ProviderNames : \E ty \in StorageTypes : \E built \in BOOLEAN :
    \E n \in 0..MaxFairBacklog :
        /\ InitBase(CreateOfflineStorage(ty),
                    IF ty \in Kinds THEN Backlog(ty, n) ELSE << >>,
                    TRUE, CreateIotClient(name, built))
        /\ storage_type = ty
        /\ provider = name
        /\ hasSensors = TRUE
        /\ on_new_data = TRUE

SpecConstruct == InitConstruct /\ [][NextFlush]_vars

\* One thread only, on a storage location that may stop and start accepting
\* writes (read-only file system, locked database).
InitDisk ==
    \E k \in Kinds : \E n \in 0..MaxFairBacklog : \E w \in BOOLEAN :
        InitEnv(k, Backlog(k, n), w, TRUE)

\* The environment: writes to the storage location start to fail.
DiskFails ==
    /\ writable
    /\ writable' = FALSE
    /\ UNCHANGED << sensorVars, cmd, kind, storage_type, stable, hasClient, provider, hasSensors, sendVars, clientVars,
                    diskVars,
                    lockVars, flushVars, connected, loopRunning, pc, op, data,
                    attempt, beVars, accepted, submitted >>

\* The environment: writes to the storage location succeed again.
DiskRecovers ==
    /\ ~writable
    /\ writable' = TRUE
    /\ UNCHANGED << sensorVars, cmd, kind, storage_type, stable, hasClient, provider, hasSensors, sendVars, clientVars,
                    diskVars,
                    lockVars, flushVars, connected, loopRunning, pc, op, data,
                    attempt, beVars, accepted, submitted >>

NextDisk == NextFlush \/ DiskFails \/ DiskRecovers

\* The device with or without a sensor manager and with or without a client:
\* SensorReadingService.__init__ and IoTManager.__init__ leave None behind
\* when the creation fails.
InitStart ==
    \E k \in Kinds : \E c \in BOOLEAN :
        /\ InitBase(k, << >>, TRUE, c)
        /\ storage_type = k
        /\ provider \in Providers
        /\ hasSensors \in BOOLEAN
        /\ on_new_data = TRUE

SpecStart == InitStart /\ [][Next]_vars

SpecDisk == InitDisk /\ [][NextDisk]_vars


\* ------------------------------------------------ IoTManager.shutdown
\* The application calls IoTManager.shutdown().
Shutdown ==
    /\ pc["main"] = "idle"
    /\ pc' = [pc EXCEPT !["main"] = "sh_stop"]
    /\ op' = [op EXCEPT !["main"] = "shutdown"]
    /\ ret' = [ret EXCEPT !["main"] = "none"]
    /\ mlog' = [NoStart EXCEPT !.call = "shutdown"]
    /\ UNCHANGED << envVars, path, connLock, max_retries, clog, diskVars, lockVars,
                    flushVars, connected, loopRunning, data, attempt, beVars,
                    accepted, submitted >>

\* Mutant of AfterStop: an error raised by stop() leaves shutdown() at once.
AfterStopPropagates(raised) == IF raised THEN "idle" ELSE "sh_disconnect"

\* shutdown: `try: self._sensor_service.stop() except Exception: log`, and
\* the second try block follows in either case.
AfterStop(raised) == "sh_disconnect"

\* SensorReadingService.stop(): nothing to do when no thread is alive; else
\* the stop event is set and the thread joined for at most 2 s (join raises
\* RuntimeError when shutdown runs on the reading thread itself).  The loop
\* takes no new reading afterwards; the pass it is in runs to its end.
ShStop(t) ==
    /\ pc[t] = "sh_stop"
    /\ \E raised \in IF loopRunning THEN BOOLEAN ELSE {FALSE} :
          /\ mlog' = [mlog EXCEPT !.steps =
                         Append(@, IF raised THEN "stop_raised" ELSE "stop")]
          /\ Goto(t, AfterStop(raised))
          /\ ret' = [ret EXCEPT ![t] =
                        IF AfterStop(raised) = "idle" THEN "raised" ELSE ret[t]]
    /\ loopRunning' = FALSE
    /\ UNCHANGED << envVars, path, connLock, max_retries, clog, diskVars, lockVars,
                    flushVars, connected, data, attempt, beVars, accepted,
                    submitted >>

\* shutdown: `try: self.disconnect() except Exception: log`, then shutdown
\* returns.  With self._client None the call raises AttributeError, which
\* the except clause takes.
ShDisconnect(t) ==
    /\ pc[t] = "sh_disconnect"
    /\ connected' = IF hasClient THEN FALSE ELSE connected
    /\ mlog' = [mlog EXCEPT !.steps =
                   Append(@, IF hasClient THEN "disconnect" ELSE "disconnect_raised")]
    /\ ret' = [ret EXCEPT ![t] = "returned"]
    /\ Goto(t, "idle")
    /\ UNCHANGED << envVars, path, connLock, max_retries, clog, diskVars, lockVars,
                    flushVars, loopRunning, data, attempt, beVars, accepted,
                    submitted >>

ShutdownSteps(t) == ShStop(t) \/ ShDisconnect(t)

NextShutdown ==
    \/ Calls
    \/ Shutdown
    \/ \E v \in Vals : HandleSensorData(v)
    \/ \E t \in Threads : Step(t) \/ ShutdownSteps(t)

\* The device with start() and shutdown(), with or without a sensor manager
\* and a client.
InitShutdown ==
    \E c \in BOOLEAN :
        /\ InitBase("json", << >>, TRUE, c)
        /\ storage_type = "json"
        /\ provider \in Providers
        /\ hasSensors \in BOOLEAN
        /\ on_new_data = TRUE

SpecShutdown == InitShutdown /\ [][NextShutdown]_vars


\* ------------------------------------------ the endpoint client by itself
\* AWSIoTClient / AzureIoTClient followed step by step, called by several
\* threads: connect(), reconnect(max_retries) and disconnect().
nonClientVars == << envVars, mlog, path, diskVars, svcLock, beLock, flushVars,
                    loopRunning, data, beVars, accepted, submitted >>

\* `with self._connection_lock:` can be entered.
ConnLockFree == connLock = NoThread

\* Mutant of Delay: the exponent is the attempt number itself.
DelayNotShifted(k) == BASE_DELAY * 2 ^ k

\* delay = base_delay * (2 ** (attempt - 1))
Delay(k) == BASE_DELAY * 2 ^ (k - 1)

\* random.uniform(0, 0.3 * delay) is a + (b - a) * random() with random() in
\* [0, 1): the smallest value, a middle one and the largest below 0.3 * delay.
Jitters(d) ==
    LET b == (3 * d) \div 10 IN {0, b \div 2, b - 1}

\* Mutant of MoreAttempts: the loop makes one attempt more.
MoreAttemptsOneMore(k, n) == k <= n

\* for attempt in range(1, max_retries + 1): is there an attempt after the k-th?
MoreAttempts(k, n) == k < n

\* Mutant of DialLeaves: a failed attempt leaves _connected set.
DialLeavesHalfConnected(r) == TRUE

\* _connected after the transport's connect: True on success; on failure the
\* AWS client returns without touching it, the Azure client sets it False.
DialLeaves(r) ==
    IF r THEN TRUE ELSE IF provider = "azure" THEN FALSE ELSE connected

\* The client call of thread t returns r to its caller.
ClientReturns(t, r) ==
    /\ ret' = [ret EXCEPT ![t] = IF r THEN "true" ELSE "false"]
    /\ attempt' = [attempt EXCEPT ![t] = 0]
    /\ Goto(t, "idle")

\* A thread calls client.connect().
ClientConnect(t) ==
    /\ pc[t] = "idle"
    /\ pc' = [pc EXCEPT ![t] = "cc_enter"]
    /\ op' = [op EXCEPT ![t] = "c_connect"]
    /\ clog' = [clog EXCEPT ![t] = [NoCalls EXCEPT !.call = "connect"]]
    /\ ret' = [ret EXCEPT ![t] = "none"]
    /\ UNCHANGED << nonClientVars, connected, connLock, max_retries, attempt >>

\* A thread calls client.reconnect(n).
ClientReconnect(t, n) ==
    /\ pc[t] = "idle"
    /\ pc' = [pc EXCEPT ![t] = "cr_check"]
    /\ op' = [op EXCEPT ![t] = "c_reconnect"]
    /\ clog' = [clog EXCEPT ![t] = [NoCalls EXCEPT !.call = "reconnect"]]
    /\ max_retries' = [max_retries EXCEPT ![t] = n]
    /\ ret' = [ret EXCEPT ![t] = "none"]
    /\ UNCHANGED << nonClientVars, connected, connLock, attempt >>

\* connect: with self._connection_lock: if self._connected: return True;
\* otherwise the attempt is made with the lock held.
CcEnter(t) ==
    /\ pc[t] = "cc_enter"
    /\ ConnLockFree
    /\ IF connected
       THEN ClientReturns(t, TRUE) /\ UNCHANGED connLock
       ELSE /\ connLock' = t
            /\ pc' = [pc EXCEPT ![t] = "cc_dial"]
            /\ UNCHANGED << op, ret, attempt >>
    /\ UNCHANGED << nonClientVars, connected, max_retries, clog >>

\* connect: the transport's connect() is awaited; the lock is released and
\* connect returns.  Inside reconnect a failure goes on to the sleep.
CcDial(t) ==
    /\ pc[t] = "cc_dial"
    /\ \E r \in Outcomes :
          /\ connected' = DialLeaves(r)
          /\ IF r \/ op[t] = "c_connect"
             THEN ClientReturns(t, r)
             ELSE /\ pc' = [pc EXCEPT ![t] = "cr_sleep"]
                  /\ UNCHANGED << op, ret, attempt >>
    /\ clog' = [clog EXCEPT ![t].dials = @ + 1]
    /\ connLock' = IF connLock = t THEN NoThread ELSE connLock
    /\ UNCHANGED << nonClientVars, max_retries >>

\* reconnect: `if self._connected: return True` (Azure: is_connected(), which
\* takes the connection lock), else the loop is entered or is empty.
CrCheck(t) ==
    /\ pc[t] = "cr_check"
    /\ provider = "azure" => ConnLockFree
    /\ IF connected
       THEN ClientReturns(t, TRUE)
       ELSE IF MoreAttempts(0, max_retries[t])
            THEN /\ pc' = [pc EXCEPT ![t] = "cc_enter"]
                 /\ attempt' = [attempt EXCEPT ![t] = 1]
                 /\ UNCHANGED << op, ret >>
            ELSE ClientReturns(t, FALSE)
    /\ UNCHANGED << nonClientVars, connected, connLock, max_retries, clog >>

\* reconnect, after a failed attempt: time.sleep(delay + jitter), then the
\* next attempt, or `return False` when the loop is over.
CrSleep(t) ==
    /\ pc[t] = "cr_sleep"
    /\ \E j \in Jitters(Delay(attempt[t])) :
          clog' = [clog EXCEPT ![t].sleeps = @ + 1,
                               ![t].last = Delay(attempt[t]) + j]
    /\ IF MoreAttempts(attempt[t], max_retries[t])
       THEN /\ pc' = [pc EXCEPT ![t] = "cc_enter"]
            /\ attempt' = [attempt EXCEPT ![t] = attempt[t] + 1]
            /\ UNCHANGED << op, ret >>
       ELSE ClientReturns(t, FALSE)
    /\ UNCHANGED << nonClientVars, connected, connLock, max_retries >>

\* A thread calls client.disconnect().
ClientDisconnect(t) ==
    /\ pc[t] = "idle"
    /\ pc' = [pc EXCEPT ![t] = "cd_enter"]
    /\ op' = [op EXCEPT ![t] = "c_disconnect"]
    /\ clog' = [clog EXCEPT ![t] = [NoCalls EXCEPT !.call = "disconnect"]]
    /\ ret' = [ret EXCEPT ![t] = "none"]
    /\ UNCHANGED << nonClientVars, connected, connLock, max_retries, attempt >>

\* How the transport's disconnect can end: the AWS client waits five seconds
\* for the future (TimeoutError, any other exception), the Azure client calls
\* a synchronous disconnect (ClientError, any other exception).
HangupOutcomes ==
    IF provider = "aws" THEN {"ok", "timeout", "raised"} ELSE {"ok", "raised"}

\* Mutant of AfterHangup: only a clean disconnect clears _connected.
AfterHangupIfClean(o) == o # "ok"

\* finally: self._connected = False
AfterHangup(o) == FALSE

\* disconnect: with self._connection_lock: if there is a transport and
\* _connected, the transport is disconnected, its errors are logged and
\* _connected ends False; otherwise nothing is done.  The lock is released
\* and None is returned.
CdEnter(t) ==
    /\ pc[t] = "cd_enter"
    /\ ConnLockFree
    /\ IF connected
       THEN \E o \in HangupOutcomes :
               /\ clog' = [clog EXCEPT ![t].transport = o]
               /\ connected' = AfterHangup(o)
       ELSE UNCHANGED << clog, connected >>
    /\ attempt' = [attempt EXCEPT ![t] = 0]
    /\ Goto(t, "idle")
    /\ UNCHANGED << nonClientVars, connLock, max_retries, ret >>

\* A thread calls client.send_telemetry(data) on the endpoint itself.
ClientSendTelemetry(t) ==
    /\ pc[t] = "idle"
    /\ pc' = [pc EXCEPT ![t] = "cs_check"]
    /\ op' = [op EXCEPT ![t] = "c_send"]
    /\ clog' = [clog EXCEPT ![t] = [NoCalls EXCEPT !.call = "send"]]
    /\ ret' = [ret EXCEPT ![t] = "none"]
    /\ UNCHANGED << nonClientVars, connected, connLock, max_retries, attempt >>

\* send_telemetry: if not self.is_connected() or there is no transport:
\* return False.
CsCheck(t) ==
    /\ pc[t] = "cs_check"
    /\ ConnLockFree
    /\ IF connected
       THEN /\ pc' = [pc EXCEPT ![t] = "cs_publish"]
            /\ UNCHANGED << op, ret, attempt >>
       ELSE ClientReturns(t, FALSE)
    /\ UNCHANGED << nonClientVars, connected, connLock, max_retries, clog >>

\* send_telemetry: the payload is handed to the transport outside the lock;
\* True when the publish is acknowledged, False when it raises or times out.
CsPublish(t) ==
    /\ pc[t] = "cs_publish"
    /\ clog' = [clog EXCEPT ![t].publishes = @ + 1]
    /\ \E r \in Outcomes : ClientReturns(t, r)
    /\ UNCHANGED << nonClientVars, connected, connLock, max_retries >>

ClientSteps(t) ==
    \/ CcEnter(t) \/ CcDial(t) \/ CrCheck(t) \/ CrSleep(t)
    \/ CdEnter(t) \/ CsCheck(t) \/ CsPublish(t)

NextClient ==
    \E t \in Threads :
        \/ ClientConnect(t)
        \/ \E n \in 0..MaxRetries : ClientReconnect(t, n)
        \/ ClientDisconnect(t)
        \/ ClientSendTelemetry(t)
        \/ ClientSteps(t)

InitClient ==
    /\ InitBase("json", << >>, TRUE, TRUE)
    /\ storage_type = "json"
    /\ provider \in BothProviders
    /\ hasSensors = TRUE
    /\ on_new_data = TRUE

SpecClient == InitClient /\ [][NextClient]_vars

\* ------------------------------------------- the backend, call by call
\* One caller uses a backend instance directly: add_messages, load_messages
\* and remove_messages, each run to completion, with what it returned.
Limits == -1..MaxMsgs

\* remove_messages is followed with up to two messages in a call: enough for
\* a duplicate, for two equal values and for a mix of stored and unknown ones.
RemoveLen == 2

\* A message that was never stored and carries no '_db_id'.
Foreign == [id |-> 0, uid |-> 0, val |-> 0, seq |-> 0, ok |-> TRUE]

Range(q) == { q[i] : i \in 1..Len(q) }

\* Messages that are no longer stored: on SQLite a '_db_id' whose row is
\* gone, on JSON a value that no stored record has.
Gone ==
    IF kind = "sqlite"
    THEN { [Foreign EXCEPT !.id = i] :
              i \in (1..(nextId - 1)) \ { storage[j].id : j \in 1..Len(storage) } }
    ELSE { [Foreign EXCEPT !.val = v] :
              v \in Vals \ { storage[j].val : j \in 1..Len(storage) } }

\* What a caller may hand to remove_messages: messages load_messages returns,
\* messages that are no longer stored, and a message of its own.
RemoveArgs ==
    UNION { [1..n -> Range(LoadMessages(0)) \cup Gone \cup {Foreign}] :
               n \in 0..RemoveLen }

\* JSON remove_messages: removed_count += 1 for each msg found in current.
RECURSIVE JsonRemoveCount(_, _)
JsonRemoveCount(current, msgs) ==
    IF msgs = << >> THEN 0
    ELSE LET i == FirstIndexOf(current, Head(msgs))
         IN  IF i = 0 THEN JsonRemoveCount(current, Tail(msgs))
             ELSE 1 + JsonRemoveCount(RemoveAt(current, i), Tail(msgs))

\* Mutant of SqlRowCount: every id asked for is counted.
SqlRowCountAsked(rows, ids) == Cardinality(ids)

\* SQLite remove_messages: cur.rowcount of the DELETE.
SqlRowCount(rows, ids) == Cardinality({ i \in 1..Len(rows) : rows[i].id \in ids })

\* The value remove_messages returns.
RemoveCount(msgs) ==
    IF msgs = << >> THEN 0
    ELSE IF kind = "json"
         THEN JsonRemoveCount(LoadEntireList(fileExists, storage), msgs)
         ELSE IF SqlRowIds(msgs) = {} \/ ~writable THEN 0
              ELSE SqlRowCount(storage, SqlRowIds(msgs))

\* backend.add_messages(messages)
StoreAdd(vs) ==
    /\ pc["main"] = "idle"
    /\ submitted + Len(vs) <= MaxMsgs
    /\ LET ms == [i \in 1..Len(vs) |->
                    [id |-> 0, uid |-> submitted + i, val |-> vs[i], seq |-> 0,
                     ok |-> TRUE]]
       IN  /\ AddMessages(ms)
           /\ out' = [NoOut EXCEPT !.call = "add", !.arg = ms]
    /\ submitted' = submitted + Len(vs)
    /\ UNCHANGED << envVars, sendVars, clientVars, lockVars, flushVars, connected,
                    loopRunning, pc, op, data, attempt, cur, messages, added,
                    doc, accepted >>

\* backend.load_messages(limit): nothing is written.
StoreLoad(limit) ==
    /\ pc["main"] = "idle"
    /\ out' = [NoOut EXCEPT !.call = "load", !.limit = limit,
                            !.result = LoadMessages(limit)]
    /\ UNCHANGED << envVars, sendVars, clientVars, diskVars, lockVars, flushVars,
                    connected, loopRunning, pc, op, data, attempt, cur, messages,
                    added, doc, accepted, submitted >>

\* backend.remove_messages(messages)
StoreRemove(msgs) ==
    /\ pc["main"] = "idle"
    /\ RemoveMessages(msgs)
    /\ out' = [NoOut EXCEPT !.call = "remove", !.arg = msgs,
                            !.count = RemoveCount(msgs)]
    /\ UNCHANGED << envVars, sendVars, clientVars, lockVars, flushVars, connected,
                    loopRunning, pc, op, data, attempt, cur, messages, added,
                    doc, accepted, submitted >>

NextStore ==
    \/ \E vs \in ValLists : StoreAdd(vs)
    \/ \E limit \in Limits : StoreLoad(limit)
    \/ \E msgs \in RemoveArgs : StoreRemove(msgs)

\* ------------------------------------------- what a stored message is
\* A message is a mapping from string keys to values; a value is given by
\* its Python type t and its content v.  "_db_id" is the key load_messages
\* of the SQLite backend writes the row id to.
Keys == {"temp", "_db_id"}

PyValues ==
    { [t |-> ty, v |-> 1] : ty \in {"int", "str", "list", "tuple"} }
        \cup { [t |-> "NoneType", v |-> 0] }

Mappings == UNION { [D -> PyValues] : D \in SUBSET Keys }

\* The values json.loads can return: for these the JSON text determines the
\* value.  (json.dumps also accepts a tuple and writes it as an array.)
JsonNative(m) == \A key \in DOMAIN m : m[key].t # "tuple"

\* json.dumps on one value: an int is written as a number, a str as a
\* string, a list or a tuple as an array, None as null.
Token(val) ==
    [syn |-> CASE val.t = "int" -> "number"
               [] val.t = "str" -> "string"
               [] val.t \in {"list", "tuple"} -> "array"
               [] OTHER -> "null",
     v |-> val.v]

\* json.dumps(msg): the object's members, each value as its JSON text.
Dumps(m) == [key \in DOMAIN m |-> Token(m[key])]

\* json.loads on one member: a number gives an int, a string a str, an array
\* a list, null None.
Value(tok) ==
    [t |-> CASE tok.syn = "number" -> "int"
             [] tok.syn = "string" -> "str"
             [] tok.syn = "array" -> "list"
             [] OTHER -> "NoneType",
     v |-> tok.v]

\* json.loads(raw_json)
Loads(text) == [key \in DOMAIN text |-> Value(text[key])]

\* parsed["_db_id"] = row_id
WithDbId(parsed, row_id) ==
    [key \in DOMAIN parsed \cup {"_db_id"} |->
        IF key = "_db_id" THEN [t |-> "int", v |-> row_id] ELSE parsed[key]]

\* The message load_messages builds from one stored record.
Parsed(row) ==
    IF kind = "sqlite" THEN WithDbId(Loads(row.val), row.id) ELSE Loads(row.val)

\* A loaded message without the key "_db_id".
Strip(rec) == [key \in DOMAIN rec \ {"_db_id"} |-> rec[key]]

\* backend.add_messages([m])
RtAdd(m) ==
    /\ pc["main"] = "idle"
    /\ submitted + 1 <= MaxMsgs
    /\ LET ms == << [id |-> 0, uid |-> submitted + 1, val |-> Dumps(m), seq |-> 0,
                     ok |-> TRUE] >>
       IN  /\ AddMessages(ms)
           /\ out' = [NoOut EXCEPT !.call = "add", !.arg = ms]
    /\ doc' = m
    /\ submitted' = submitted + 1
    /\ UNCHANGED << envVars, sendVars, clientVars, lockVars, flushVars, connected,
                    loopRunning, pc, op, data, attempt, cur, messages, added,
                    accepted >>

\* backend.load_messages(): the stored records, decoded.
RtLoad ==
    /\ pc["main"] = "idle"
    /\ LET rows == LoadMessages(0)
       IN  out' = [NoOut EXCEPT !.call = "load",
                                !.result = [i \in 1..Len(rows) |-> Parsed(rows[i])]]
    /\ UNCHANGED << envVars, sendVars, clientVars, diskVars, lockVars, flushVars,
                    connected, loopRunning, pc, op, data, attempt, cur, messages,
                    added, doc, accepted, submitted >>

NextRoundTrip ==
    \/ \E m \in Mappings : RtAdd(m)
    \/ RtLoad

\* An empty backend of either kind.
InitRoundTrip == \E k \in Kinds : InitWith(k, << >>)

SpecRoundTrip == InitRoundTrip /\ [][NextRoundTrip]_vars

\* A backend that holds what an earlier run left behind.
InitStore == \E k \in Kinds : \E n \in 0..MaxFairBacklog : InitWith(k, Backlog(k, n))

SpecStore == InitStore /\ [][NextStore]_vars

\* A backend of either kind built on a location that can or cannot be
\* written to: JSONOfflineStorage.__init__ touches nothing, and
\* SQLiteOfflineStorage.__init__ runs _init_db.
InitAcquire ==
    \E k \in Kinds : \E w \in BOOLEAN :
        /\ InitBuilt(k, << >>, w, TRUE, w)
        /\ storage_type = k
        /\ provider \in Providers
        /\ hasSensors = TRUE
        /\ on_new_data = TRUE

SpecAcquire == InitAcquire /\ [][NextStore]_vars

\* The same on storage that was damaged at rest: some records of the JSON
\* file, or some rows of the SQLite table, no longer decode.
CorruptStore(k, n, bad) ==
    [i \in 1..n |-> [CorruptBacklog(n, bad)[i] EXCEPT
                        !.id = IF k = "sqlite" THEN i ELSE 0]]

\* Up to two records, any of them damaged.
InitStoreCorrupt ==
    \E k \in Kinds : \E n \in 0..2 : \E bad \in SUBSET (1..n) :
        InitWith(k, CorruptStore(k, n, bad))

SpecStoreCorrupt == InitStoreCorrupt /\ [][NextStore]_vars

\* ------------------------------------------------- the two locks together
\* The service lock (OfflineStorageService._lock) and the client's
\* _connection_lock, with client.send_telemetry's is_connected() query
\* followed lock by lock inside flush_data.

\* Mutant of ReleasedConn: the `with self._connection_lock:` block is left
\* with the lock still held.
ReleasedConnNever(t) == connLock

\* Leaving `with self._connection_lock:` releases the lock.
ReleasedConn(t) == IF connLock = t THEN NoThread ELSE connLock

\* flush_data, `self._client.send_telemetry(msg)`: the client first calls
\* is_connected(), which enters `with self._connection_lock:`.
FlQuery(t) ==
    /\ pc[t] = "fl_send"
    /\ Len(log[t]) < MaxSends
    /\ ConnLockFree
    /\ connLock' = t
    /\ pc' = [pc EXCEPT ![t] = "fl_publish"]
    /\ UNCHANGED << envVars, sendVars, max_retries, clog, mlog, diskVars, lockVars,
                    flushVars, connected, loopRunning, op, data, attempt, beVars,
                    accepted, submitted >>

\* is_connected() returns _connected and releases the lock; the client then
\* publishes (or returns False when not connected) and flush_data counts it.
FlPublish(t) ==
    /\ pc[t] = "fl_publish"
    /\ connLock' = ReleasedConn(t)
    /\ LET msg == batch[t][success_count[t] + 1]
       IN  \E r \in SendResults :
              /\ log' = [log EXCEPT ![t] =
                            Append(@, [seq |-> msg.seq, uid |-> msg.uid,
                                       db_id |-> msg.id, ok |-> r])]
              /\ IF r
                 THEN /\ success_count' = [success_count EXCEPT ![t] = @ + 1]
                      /\ accepted' = accepted \cup
                             {[uid |-> msg.uid, seq |-> msg.seq, via |-> "flush"]}
                      /\ pc' = [pc EXCEPT ![t] =
                             IF success_count[t] + 1 = Len(batch[t])
                             THEN "fl_remove" ELSE "fl_send"]
                 ELSE /\ pc' = [pc EXCEPT ![t] = "fl_remove"]
                      /\ UNCHANGED << success_count, accepted >>
    /\ UNCHANGED << envVars, sendVars, max_retries, clog, mlog, diskVars, lockVars,
                    batch, flFrom, trans, q0, connected, loopRunning, op, data,
                    attempt, beVars, submitted >>

\* The steps that call is_connected() outside flush_data's loop take and
\* release the connection lock within the step: they wait while it is held.
QuerySteps(t) == ConnLockFree /\ (StCheck(t) \/ StSend(t) \/ FlCheck(t))

LockSteps(t) ==
    \/ QuerySteps(t)
    \/ AmLock(t) \/ AmAdd(t)
    \/ FlLock(t) \/ FlLoad(t) \/ FlQuery(t) \/ FlPublish(t) \/ FlRemove(t)
    \/ FlExit(t)
    \/ CcEnter(t) \/ CcDial(t) \/ CdEnter(t)

\* The application's thread connects, disconnects and flushes; the reading
\* thread hands its readings to send_telemetry.
NextLocks ==
    \/ FlushData
    \/ ClientConnect("main")
    \/ ClientDisconnect("main")
    \/ \E v \in Vals : CallSendTelemetry("acq", v)
    \/ \E t \in Threads : LockSteps(t)

\* Two threads on one device whose backend holds what an earlier run left.
InitLocks == \E k \in Kinds : \E n \in 0..MaxFairBacklog : InitWith(k, Backlog(k, n))

SpecLocks == InitLocks /\ [][NextLocks]_vars

\* ------------------------------------------ flushing damaged storage
\* Which stored records are damaged: a leading run of them, or one of them
\* somewhere in the queue.
DamagedSets(n) == { 1..j : j \in 0..n } \cup { {j} : j \in 1..n }

\* A backend of up to MaxBacklog records, some of which do not decode.
InitDrain ==
    \E k \in Kinds : \E n \in 0..MaxBacklog : \E bad \in DamagedSets(n) :
        InitWith(k, CorruptStore(k, n, bad))

\* The application's thread connects, disconnects and flushes, and the link
\* becomes reliable.
NextDrain ==
    \/ Restore
    \/ Connect \/ Disconnect \/ FlushData
    \/ McConnect("main") \/ FlushSteps("main")

SpecDrain == InitDrain /\ [][NextDrain]_vars

\* ------------------------------------------------ all three locks
\* The application's thread connects, reconnects, disconnects, flushes and
\* buffers; the reading thread hands its readings to send_telemetry; and a
\* thread may be inside the backend on its own.  Two messages are enough
\* for every pair of lock holders and waiters.
LockMsgs == 2

NextDeadlock ==
    \/ FlushData
    \/ ClientConnect("main")
    \/ ClientReconnect("main", 1)
    \/ ClientDisconnect("main")
    \/ submitted < LockMsgs /\ AddMessage(1)
    \/ submitted < LockMsgs /\ CallSendTelemetry("acq", 1)
    \/ submitted < LockMsgs /\ CallAddMessages("acq", << 1 >>)
    \/ \E t \in Threads : LockSteps(t) \/ CrCheck(t) \/ CrSleep(t) \/ BackendSteps(t)

InitDeadlock ==
    \E k \in Kinds :
        /\ InitBase(k, Backlog(k, 1), TRUE, TRUE)
        /\ storage_type = k
        /\ provider \in BothProviders
        /\ hasSensors = TRUE
        /\ on_new_data = TRUE

SpecDeadlock == InitDeadlock /\ [][NextDeadlock]_vars

\* ================================================================ claims
\* The send calls of a flush: did the send of record r return True?
SentOk(lg, r) == \E j \in 1..Len(lg) : lg[j].seq = r.seq /\ lg[j].ok

\* The length of the longest leading run of q whose sends returned True.
RECURSIVE LeadRun(_, _)
LeadRun(q, lg) ==
    IF q = << >> \/ ~SentOk(lg, Head(q)) THEN 0 ELSE 1 + LeadRun(Tail(q), lg)

Stored(r) == \E i \in 1..Len(storage) : storage[i].seq = r.seq

\* C1: when flush_data returns, the backend holds exactly the records it held
\* when the flush began minus the longest leading run of records whose send
\* returned True, in the original order, none twice.
C1_FlushLeavesUnsentRemainder ==
    \A t \in Threads :
        pc[t] = "fl_exit" =>
            storage = SubSeq(q0[t], LeadRun(q0[t], log[t]) + 1, Len(q0[t]))

\* C1 witness: [m1, m2, m3], m1 sent, m2 refused: [m2, m3] is left.
C1_Witness ==
    /\ pc["main"] = "fl_exit"
    /\ Len(q0["main"]) = 3
    /\ Len(log["main"]) = 2
    /\ log["main"][1].ok /\ ~log["main"][2].ok
    /\ storage = Tail(q0["main"])

\* C2: within one flush_data call no send follows a send that returned False:
\* only the last send call can be a failure, so the number of send calls is the
\* number of successful ones, plus one when a failure occurred.
C2_NoSendAfterFailure ==
    \A t \in Threads :
        LET lg == log[t]
            nOk == Cardinality({ j \in 1..Len(lg) : lg[j].ok })
            failed == \E j \in 1..Len(lg) : ~lg[j].ok
        IN  /\ \A j \in 1..(Len(lg) - 1) : lg[j].ok
            /\ Len(lg) = nOk + (IF failed THEN 1 ELSE 0)

\* C2 witness: a failure in the first batch of a backlog that needs a second
\* one; the flush returns with the rest of both batches not attempted.
C2_Witness ==
    /\ pc["main"] = "fl_exit"
    /\ Len(q0["main"]) > BATCH_SIZE
    /\ Len(log["main"]) \in 2..(BATCH_SIZE - 1)
    /\ ~log["main"][Len(log["main"])].ok

\* C3: when flush_data returns, a record has left the backend if and only if
\* its send returned True or it was met undecodable by the load.
C3_RemovedIffSentOrUndecodable ==
    \A t \in Threads :
        pc[t] = "fl_exit" =>
            \A i \in 1..Len(q0[t]) :
                LET r == q0[t][i]
                IN  (~Stored(r)) <=> (SentOk(log[t], r) \/ (~r.ok /\ i <= BATCH_SIZE))


AcceptedUid(u) == \E e \in accepted : e.uid = u
StoredUid(u) == \E i \in 1..Len(storage) : storage[i].uid = u
InCall(u) == \E t \in Threads : data[t].uid = u

\* C4: every message handed to send_telemetry or add_message whose call has
\* returned was accepted by the endpoint or is in the backend.
C4_NoMessageLost ==
    \A u \in 1..submitted : AcceptedUid(u) \/ StoredUid(u) \/ InCall(u)

\* C4 witness: all calls have returned; one message went out directly, one
\* went out with a flush, one is still buffered.
C4_Witness ==
    /\ \A t \in Threads : pc[t] = "idle"
    /\ submitted = 3
    /\ \E e \in accepted : e.via = "direct"
    /\ \E e \in accepted : e.via = "flush"
    /\ Len(storage) = 1

FlushAccepted == { e \in accepted : e.via = "flush" }

\* C5: the buffered messages the endpoint accepts are accepted in the order in
\* which they were enqueued, across flushes and enqueues in between.
C5_FlushIsFifo ==
    [][\A e \in accepted' \ accepted :
          e.via = "flush" => \A f \in FlushAccepted : f.seq < e.seq]_vars

\* C5 witness: two buffered messages were delivered by different steps while a
\* third, enqueued later, waits for the next flush.
C5_Witness ==
    /\ Cardinality(FlushAccepted) = 2
    /\ \E i \in 1..Len(storage) : \A f \in FlushAccepted : f.seq < storage[i].seq

\* Is the stored record r still undelivered?
Undelivered(r) == ~\E f \in FlushAccepted : f.seq = r.seq

\* C6 as claimed: the endpoint never accepts a message, from flush_data or
\* directly from send_telemetry, while a message handed to send_telemetry
\* earlier is still undelivered in the backend.
C6_NoSkipAheadInPipeline ==
    [][\A e \in accepted' \ accepted :
          \A i \in 1..Len(storage) :
              storage[i].uid < e.uid => ~Undelivered(storage[i])]_vars

\* C6 amended: flush_data never gets a buffered record accepted while a record
\* enqueued before it is still undelivered in the backend.
C6_FlushNeverSkipsAhead ==
    [][\A e \in accepted' \ accepted :
          e.via = "flush" =>
              \A i \in 1..Len(storage) :
                  storage[i].seq < e.seq => ~Undelivered(storage[i])]_vars

\* C6 witness: a flush has delivered the second of three buffered records, the
\* first (delivered just before) is not yet removed, the third still waits.
C6_Witness ==
    \E t \in Threads :
        /\ pc[t] = "fl_send"
        /\ Len(batch[t]) = 3
        /\ success_count[t] = 2
        /\ Len(storage) = 3

\* ---------------------------------------------------------------- C7
\* A record this run's pipeline buffered is in the backend.
BufferedByPipeline == \E i \in 1..Len(storage) : storage[i].uid > 0

\* C7: once the link is stable (connect and publish always succeed from now
\* on) while the pipeline started with start() is running and holds buffered
\* messages, the backend eventually becomes empty without any further call by
\* the application.
C7_BufferedMessagesDrain ==
    (stable /\ connected /\ loopRunning /\ BufferedByPipeline) ~> (storage = << >>)

FlushPcs == {"fl_check", "fl_lock", "fl_load", "fl_send", "fl_remove", "fl_exit"}
ClientCallPcs == {"mc_connect", "mr_check", "mr_attempt"}

\* C8 as claimed: IoTManager runs flush_data only when its connect or
\* reconnect has just moved the endpoint from Disconnected to Connected.
C8_FlushOnlyOnTransition ==
    \A t \in Threads :
        (pc[t] \in FlushPcs /\ flFrom[t] \in {"connect", "reconnect"}) => trans[t]

\* C8 amended: IoTManager runs flush_data once for each of its connect or
\* reconnect calls in which the client call returned True (endpoint Connected,
\* whether or not it was Connected before), and at no other point: not when
\* the client call returned False, and never from send_telemetry or add_message.
C8_FlushIffClientReturnedTrue ==
    [][\A t \in Threads :
          /\ (pc[t] \in ClientCallPcs /\ pc'[t] \notin {pc[t], "mr_attempt"})
                => ((pc'[t] = "fl_check") <=> connected')
          /\ (pc'[t] = "fl_check" /\ pc[t] # "fl_check" /\ op'[t] # "flush")
                => pc[t] \in ClientCallPcs
          /\ (op'[t] \in {"send", "add"} => pc'[t] \notin FlushPcs)]_vars

\* C8 witness: a flush invoked by IoTManager.connect on an endpoint that was
\* Connected already.
C8_Witness ==
    /\ pc["main"] = "fl_send"
    /\ flFrom["main"] = "connect"
    /\ ~trans["main"]

InSvcSection(t) == pc[t] \in {"am_add", "fl_load", "fl_send", "fl_remove", "fl_exit"}
InFlushSection(t) == pc[t] \in {"fl_load", "fl_send", "fl_remove", "fl_exit"}

IsSuffix(a, b) == Len(a) <= Len(b) /\ a = SubSeq(b, Len(b) - Len(a) + 1, Len(b))

CopiesOf(a) ==
    Cardinality({ i \in 1..Len(storage) :
                    storage[i].uid = a.uid /\ storage[i].val = a.val })

\* C10: once every concurrent add_messages call on the backend has returned,
\* the backend holds each added message exactly once and nothing else: the
\* stored count equals the added count.
C10_ConcurrentAddsKeepAll ==
    (\A t \in Threads : pc[t] = "idle")
        => /\ Len(storage) = Cardinality(added)
           /\ \A a \in added : CopiesOf(a) = 1

\* Two calls overlapped (the call that started later stored first) and both
\* have returned.
C10_Witness ==
    /\ \A t \in Threads : pc[t] = "idle"
    /\ Len(storage) >= 2
    /\ \E i \in 1..Len(storage) : \E j \in 1..Len(storage) :
          i < j /\ storage[i].uid > storage[j].uid
    /\ Len(storage) = Cardinality(added)

\* --------------------------------------------------------------- C11
\* C11: a send_telemetry call that finds the endpoint disconnected never calls
\* the endpoint's send, and when it returns (False) its message is in the
\* backend.
C11_OfflineSendIsBuffered ==
    [][\A t \in Threads :
          /\ (pc[t] = "st_check" /\ ~connected /\ pc'[t] # pc[t])
                => path'[t] = "offline"
          /\ path[t] = "offline"
                => /\ pc'[t] \in {"am_lock", "am_add", "idle"}
                   /\ path'[t] \in {"offline", "none"}
                   /\ \A e \in accepted' \ accepted : e.uid # data[t].uid
                   /\ path'[t] = "none"
                         => /\ \E i \in 1..Len(storage') :
                                  storage'[i].uid = data[t].uid
                            /\ ret'[t] = "false"]_vars

\* C11 witness: the application's send_telemetry has returned False on a
\* disconnected endpoint with its message stored; the reading thread's call,
\* also made while disconnected, is about to store its message.
C11_Witness ==
    /\ ~connected
    /\ accepted = {}
    /\ pc["main"] = "idle" /\ ret["main"] = "false"
    /\ Len(storage) = 1
    /\ pc["acq"] = "am_add" /\ path["acq"] = "offline"

\* --------------------------------------------------------------- C12
\* C12: send_telemetry never raises; it returns True exactly when the
\* endpoint was connected and its send returned True, and then the message is
\* not buffered; in every other case it returns False and, with a backend
\* configured, the message is in the backend.
C12_SendTelemetryNeverRaises ==
    [][\A t \in Threads :
          (op[t] = "send" /\ pc[t] # "idle" /\ pc'[t] = "idle")
             => LET sentOk == /\ pc[t] = "st_send"
                              /\ \E e \in accepted' \ accepted : e.uid = data[t].uid
                    stored == \E i \in 1..Len(storage') :
                                  storage'[i].uid = data[t].uid
                IN  /\ ret'[t] \in {"true", "false"}
                    /\ ret'[t] = "true" <=> sentOk
                    /\ ret'[t] = "true" => ~stored
                    /\ (ret'[t] = "false" /\ kind # "none") => stored]_vars

\* --------------------------------------------------------------- C13
\* C13: no payload handed to the endpoint's send during flush_data carries
\* the backend's '_db_id' field.
C13_DbIdNeverSent ==
    \A t \in Threads : \A j \in 1..Len(log[t]) : log[t][j].db_id = 0

\* --------------------------------------------------------------- C14
\* C14: every iteration of flush_data's loop either strictly shrinks the
\* backend or ends the flush, so one flush never sends the same batch again.
C14_FlushIterationShrinksOrStops ==
    [][\A t \in Threads :
          (pc[t] = "fl_remove" /\ pc'[t] # pc[t])
             => (Len(storage') < Len(storage) \/ pc'[t] = "fl_exit")]_vars

\* --------------------------------------------------------------- C15
\* C15: with no backend configured, no client attached or the endpoint not
\* connected, flush_data returns at once: the backend is unchanged and the
\* endpoint's send is not called.
C15_FlushSkippedIsNoOp ==
    [][\A t \in Threads :
          (/\ pc[t] = "fl_check" /\ pc'[t] # pc[t]
           /\ (kind = "none" \/ ~hasClient \/ ~connected))
             => /\ pc'[t] \notin FlushPcs
                /\ UNCHANGED << storage, fileExists, accepted, log >>]_vars

\* C15 witness: flush_data has been called on a backend that holds a record
\* while no client is attached (so none is connected either).
C15_Witness ==
    /\ pc["main"] = "fl_check" /\ op["main"] = "flush"
    /\ ~hasClient /\ ~connected
    /\ Len(storage) = 1

\* C16: the endpoint's connect() called while connected returns true without
\* a connection attempt, and whenever a connect() returns false (to its caller
\* or to the reconnect loop) the client is disconnected.
C16_ConnectIdempotentAndAtomic ==
    [][\A t \in Threads :
          /\ (pc[t] = "cc_enter" /\ connected /\ pc'[t] # pc[t])
                => /\ pc'[t] = "idle"
                   /\ ret'[t] = "true"
                   /\ clog'[t].dials = clog[t].dials
                   /\ connected'
          /\ (pc[t] = "cc_dial" /\ pc'[t] = "idle" /\ ret'[t] = "false")
                => ~connected'
          /\ (pc[t] = "cc_dial" /\ pc'[t] = "cr_sleep") => ~connected'
      ]_vars

\* One connect() found the client connected and made no attempt, and, after a
\* disconnect, another one attempted, failed and left the client disconnected.
C16_Witness ==
    /\ clog["main"] = [NoCalls EXCEPT !.call = "connect"]
    /\ ret["main"] = "true"
    /\ clog["acq"] = [NoCalls EXCEPT !.call = "connect", !.dials = 1]
    /\ ret["acq"] = "false"
    /\ pc["main"] = "idle" /\ pc["acq"] = "idle"
    /\ ~connected

\* C17: reconnect(max_retries) makes at most max_retries connection attempts;
\* a successful attempt makes it return true at once; it returns false only
\* after exactly max_retries failed attempts, none when max_retries is 0.
C17_ReconnectBoundedAttempts ==
    [][\A t \in Threads :
          op[t] = "c_reconnect" =>
             /\ clog'[t].dials <= max_retries[t]
             /\ (pc[t] = "cc_dial" /\ connected')
                   => /\ pc'[t] = "idle"
                      /\ ret'[t] = "true"
             /\ (pc'[t] = "idle" /\ ret'[t] = "false")
                   => clog'[t].dials = max_retries[t]
             /\ (pc'[t] = "idle" /\ max_retries[t] = 0) => clog'[t].dials = 0
      ]_vars

\* One reconnect(2) failed twice and returned false; another failed once,
\* succeeded on its second attempt and returned true.
C17_Witness ==
    /\ clog["main"].call = "reconnect" /\ clog["main"].dials = 2
    /\ max_retries["main"] = 2 /\ ret["main"] = "false" /\ pc["main"] = "idle"
    /\ clog["acq"].call = "reconnect" /\ clog["acq"].dials = 2
    /\ clog["acq"].sleeps = 1 /\ ret["acq"] = "true" /\ pc["acq"] = "idle"

\* C18: reconnect sleeps only between attempts: a reconnect(n), n >= 1, that
\* returns false after n failed attempts has slept n - 1 times, and no sleep
\* follows a successful attempt.
C18_SleepsOnlyBetweenAttempts ==
    [][\A t \in Threads :
          op[t] = "c_reconnect" =>
             /\ (pc'[t] = "idle" /\ ret'[t] = "false" /\ max_retries[t] >= 1)
                   => /\ clog'[t].dials = max_retries[t]
                      /\ clog'[t].sleeps = max_retries[t] - 1
             /\ (pc[t] = "cc_dial" /\ connected')
                   => /\ pc'[t] = "idle"
                      /\ clog'[t].sleeps = clog[t].sleeps
      ]_vars

\* C19: the sleep after the k-th failed attempt of a reconnect lasts at least
\* 2 * 2^(k-1) seconds and less than 1.3 times that (here in tenths of a
\* second), so its lower bound doubles with each attempt.
C19_BackoffDelayRange ==
    [][\A t \in Threads :
          (pc[t] = "cr_sleep" /\ pc'[t] # pc[t]) =>
             LET k == clog[t].dials
                 slept == clog'[t].last
             IN  /\ clog'[t].sleeps = k
                 /\ 20 * 2 ^ (k - 1) <= slept
                 /\ 10 * slept < 13 * 20 * 2 ^ (k - 1)
      ]_vars

\* A reconnect has slept after its second failed attempt, for the longest
\* time the jitter allows: 4 s + 1.1 s.
C19_Witness ==
    /\ clog["main"].call = "reconnect"
    /\ clog["main"].dials = 2
    /\ clog["main"].sleeps = 2
    /\ clog["main"].last = 51

\* C20 as stated: start() performs exactly one connect(), exactly one
\* reconnect() if and only if that connect failed, and in every outcome the
\* reading loop is running when start() returns.
C20_StartAlwaysStartsLoop ==
    [][(/\ op["main"] = "start"
        /\ pc["main"] # "idle" /\ pc'["main"] = "idle"
        /\ ret'["main"] # "raised")
          => /\ mlog'.connects = 1
             /\ mlog'.reconnects = IF mlog'.first = "false" THEN 1 ELSE 0
             /\ loopRunning'
      ]_vars

\* C20, amended: start() performs exactly one connect(), exactly one
\* reconnect() if and only if that connect failed, and when start() returns
\* the reading loop is running, whatever the connection outcome, exactly when
\* the sensor manager exists.
C20_StartStartsLoopIfSensors ==
    [][(/\ op["main"] = "start"
        /\ pc["main"] # "idle" /\ pc'["main"] = "idle"
        /\ ret'["main"] # "raised")
          => /\ mlog'.connects = 1
             /\ mlog'.reconnects = IF mlog'.first = "false" THEN 1 ELSE 0
             /\ loopRunning' = hasSensors
      ]_vars

\* start() has returned after a failed connect() and a failed reconnect();
\* the loop is running and a reading has been buffered while disconnected.
C20_Witness ==
    /\ mlog = [call |-> "start", connects |-> 1, reconnects |-> 1,
               first |-> "false", steps |-> << >>]
    /\ pc["main"] = "idle"
    /\ ~connected
    /\ hasSensors /\ loopRunning
    /\ Len(storage) = 1
    /\ accepted = {}

\* C21: shutdown() stops the reading loop before it disconnects, goes on to
\* the disconnect also when stopping the loop raised, and never raises.
C21_ShutdownStopsThenDisconnects ==
    [][(op["main"] = "shutdown" /\ pc["main"] # "idle" /\ pc'["main"] = "idle")
          => /\ ret'["main"] = "returned"
             /\ Len(mlog'.steps) = 2
             /\ mlog'.steps[1] \in {"stop", "stop_raised"}
             /\ mlog'.steps[2] \in {"disconnect", "disconnect_raised"}
             /\ ~loopRunning'
             /\ hasClient => (mlog'.steps[2] = "disconnect" /\ ~connected')
      ]_vars

\* A shutdown() of a running, connected device has returned although
\* stopping the loop raised: the endpoint has been disconnected all the same.
C21_Witness ==
    /\ mlog.call = "shutdown"
    /\ mlog.steps = << "stop_raised", "disconnect" >>
    /\ pc["main"] = "idle" /\ ret["main"] = "returned"
    /\ ~connected /\ ~loopRunning
    /\ accepted # {}

\* C22 as stated: no thread acquires the connection lock while it holds the
\* service lock, and no thread acquires the service lock while it holds the
\* connection lock.
C22_LocksNeverNested ==
    [][\A t \in Threads :
          /\ (connLock # t /\ connLock' = t) => svcLock # t
          /\ (svcLock # t /\ svcLock' = t) => connLock # t
      ]_vars

\* C22, amended: no thread acquires the service lock while it holds the
\* connection lock, and a thread holding the connection lock never waits for
\* the service lock.  The connection lock is acquired under the service lock
\* only by flush_data's sends, for the is_connected() query, and is released
\* in that thread's next step.
C22_LocksNestedOneWay ==
    [][\A t \in Threads :
          /\ (svcLock # t /\ svcLock' = t) => connLock # t
          /\ connLock = t => pc[t] \notin {"fl_lock", "am_lock"}
          /\ (connLock # t /\ connLock' = t /\ svcLock = t) => pc[t] = "fl_send"
          /\ (connLock = t /\ svcLock = t)
                => (pc[t] = "fl_publish" /\ (pc'[t] # pc[t] => connLock' # t))
      ]_vars

\* A flush holds the service lock and, inside a send, the connection lock,
\* while the other thread waits for the service lock to buffer a message.
C22_Witness ==
    /\ svcLock = "main" /\ connLock = "main"
    /\ pc["main"] = "fl_publish"
    /\ pc["acq"] = "am_lock"

\* The messages of a list of records, without what the backend adds to them.
Payloads(q) == [i \in 1..Len(q) |-> [uid |-> q[i].uid, val |-> q[i].val]]

\* C23: load_messages(0) after add_messages(m1..mn) returns what it returned
\* before followed by m1..mn in that order, so that adds with no removal in
\* between come back in the order they were made; and what load_messages(0)
\* returns is always oldest first (increasing sequence identifier).
C23_LoadReturnsAddOrder ==
    [][/\ out'.call = "add"
            => Payloads(LoadMessages(0))' = Payloads(LoadMessages(0)) \o Payloads(out'.arg)
       /\ LET q == LoadMessages(0)'
          IN  \A i, j \in 1..Len(q) : i < j => q[i].seq < q[j].seq
      ]_vars

\* Three messages added to an empty SQLite backend in two calls have been
\* loaded in the order they were added.
C23_Witness ==
    /\ kind = "sqlite"
    /\ out.call = "load" /\ out.limit = 0
    /\ Payloads(out.result) = << [uid |-> 1, val |-> 2], [uid |-> 2, val |-> 1],
                                 [uid |-> 3, val |-> 1] >>
    /\ nextId = 4

\* C24: add_messages([]) changes nothing: a missing JSON file stays missing
\* and the stored records (JSON file, SQLite rows and row ids) stay as they
\* were, whatever the backend holds.
C24_AddNothingIsNoOp ==
    [][(out'.call = "add" /\ out'.arg = << >>)
          => UNCHANGED << storage, fileExists, nextId >>
      ]_vars

\* add_messages([]) has been called on a JSON backend that has no file.
C24_Witness ==
    /\ kind = "json"
    /\ out.call = "add" /\ out.arg = << >>
    /\ ~fileExists /\ storage = << >>
    /\ submitted = 0

\* The stored rows a remove_messages call names by '_db_id'.
NamedRows(rows, msgs) == { i \in 1..Len(rows) : rows[i].id \in SqlRowIds(msgs) }

\* C25: on the JSON backend the file exists exactly when the queue holds a
\* record, after every call; on the SQLite backend removing rows brings the
\* row count down by the rows named, so back to its value before they were
\* added, and every later add still appends its rows to the table.
C25_FileIffRecords ==
    [][/\ kind = "json" => (fileExists' <=> LoadMessages(0)' # << >>)
       /\ (kind = "sqlite" /\ out'.call = "remove")
             => /\ Len(storage') = Len(storage) - Cardinality(NamedRows(storage, out'.arg))
                /\ fileExists'
       /\ (kind = "sqlite" /\ out'.call = "add")
             => /\ Len(storage') = Len(storage) + Len(out'.arg)
                /\ fileExists'
      ]_vars

\* On the JSON backend two messages were added and removed, which deleted
\* the file, and the next add has created it again with its one message.
C25_Witness ==
    /\ kind = "json"
    /\ out.call = "add" /\ Len(out.arg) = 1
    /\ fileExists /\ Len(storage) = 1
    /\ storage[1].uid = 3 /\ enqueued = 3

\* C26: load_messages(limit) writes nothing and returns the first
\* min(limit, n) of the n stored records when limit > 0, all n when
\* limit <= 0, and the empty list when there is no file or no record.
C26_LoadIsPrefixAndPure ==
    [][out'.call = "load"
          => LET n == Len(storage)
                 k == IF out'.limit > 0 THEN Min(out'.limit, n) ELSE n
             IN  /\ UNCHANGED << storage, fileExists, nextId >>
                 /\ Len(out'.result) = k
                 /\ \A i \in 1..k : /\ out'.result[i].uid = storage[i].uid
                                    /\ out'.result[i].val = storage[i].val
                 /\ (~fileExists \/ n = 0) => out'.result = << >>
      ]_vars

\* load_messages(2) on a JSON file of three records has returned the two
\* oldest and left the three in place.
C26_Witness ==
    /\ kind = "json"
    /\ out.call = "load" /\ out.limit = 2
    /\ Len(out.result) = 2 /\ Len(storage) = 3
    /\ out.result[2].uid = storage[2].uid

\* A stored record r is named by the messages msgs: on SQLite by its row id,
\* on JSON by a message equal to it.
Names(msgs, r) ==
    IF kind = "sqlite"
    THEN \E i \in 1..Len(msgs) : msgs[i].id > 0 /\ msgs[i].id = r.id
    ELSE \E i \in 1..Len(msgs) : msgs[i].val = r.val

\* C27: remove_messages returns the number of records it removed and removes
\* only records it was given: a message that is not or no longer stored, and
\* on SQLite one without a valid '_db_id', is ignored and not counted, and
\* the records that stay keep their order.
C27_RemoveCountsWhatItRemoves ==
    [][out'.call = "remove"
          => LET kept == Range(storage')
                 named == { i \in 1..Len(storage) : Names(out'.arg, storage[i]) }
             IN  /\ out'.count = Len(storage) - Len(storage')
                 /\ storage' = SelectSeq(storage, LAMBDA r : r \in kept)
                 /\ \A i \in 1..Len(storage) :
                       storage[i] \notin kept => i \in named
                 /\ named = {} => storage' = storage /\ out'.count = 0
                 /\ out'.count <= Len(out'.arg)
      ]_vars

\* remove_messages was given one stored record and one that is no longer
\* stored, on SQLite: it has returned 1 and two other records are left.
C27_Witness ==
    /\ kind = "sqlite"
    /\ out.call = "remove" /\ Len(out.arg) = 2 /\ out.count = 1
    /\ \E i \in 1..2 : out.arg[i].id > 0 /\ out.arg[i].id < nextId
                       /\ out.arg[i].uid = 0
    /\ Len(storage) = 2

\* C28: add_messages([m]) followed by load_messages returns, as its newest
\* record, a record equal to m: on JSON the record itself, on SQLite the
\* record without its '_db_id' (which holds the row id).  m ranges over the
\* mappings whose values JSON represents exactly.
C28_RoundTrip ==
    (out.call = "load" /\ out.result # << >> /\ JsonNative(doc))
        => LET r == out.result[Len(out.result)]
           IN  IF kind = "sqlite" THEN Strip(r) = doc ELSE r = doc

WellFormed(rows) == SelectSeq(rows, LAMBDA r : r.ok)

\* C29: with stored records that do not decode, load_messages() returns all
\* the well-formed records in stored order, add_messages keeps them all (and
\* appends after them), and remove_messages takes away well-formed records
\* only when it was given them, on both backends.
C29_CorruptionIsolatedPerRecord ==
    [][/\ (out'.call = "load" /\ out'.limit <= 0)
            => Payloads(out'.result) = Payloads(WellFormed(storage))
       /\ out'.call = "add"
            => /\ Len(WellFormed(storage')) = Len(WellFormed(storage)) + Len(out'.arg)
               /\ SubSeq(WellFormed(storage'), 1, Len(WellFormed(storage)))
                     = WellFormed(storage)
       /\ out'.call = "remove"
            => \A i \in 1..Len(storage) :
                  (storage[i].ok /\ ~Names(out'.arg, storage[i]))
                      => storage[i] \in Range(storage')
      ]_vars

\* C31: a SQLite backend object exists only with its table: when the
\* database or the table cannot be created, the construction fails and
\* leaves no backend behind.
C31_SqliteBuiltOnlyWithTable ==
    kind = "sqlite" => fileExists

\* C32: a read_all() that raises gives a cycle whose data holds the timestamp
\* only, the callback (when there is one) is still invoked with it, an
\* exception of the callback is caught, and in both cases the loop goes on
\* to its sleep and its next cycle: a loop thread ends only at the loop top,
\* with the stop event set.
C32_LoopSurvivesFailures ==
    [][\A i \in 1..MaxLoops :
          /\ (loops[i].pc = "read" /\ loops'[i] # loops[i])
                => /\ loops'[i].pc = IF on_new_data THEN "callback" ELSE "sleep"
                   /\ loops'[i].data.stamped
                   /\ loops'[i].readRaised <=> loops'[i].data.fields = "empty"
          /\ (loops[i].pc = "callback" /\ loops'[i] # loops[i])
                => /\ loops'[i].pc = "sleep"
                   /\ sensed'.data = loops[i].data /\ sensed'.by = i
          /\ (loops[i].pc # "dead" /\ loops'[i].pc = "dead")
                => loops[i].pc = "top" /\ stop_event
      ]_vars

\* A cycle whose read_all() raised has handed the timestamp alone to the
\* callback and the loop is in the sleep that follows.
C32_Witness ==
    \E i \in 1..MaxLoops :
        /\ loops[i].pc = "sleep" /\ loops[i].readRaised
        /\ sensed.by = i /\ sensed.data = [fields |-> "empty", stamped |-> TRUE]

\* C34: once stop() has set the stop signal, a loop that was running then
\* starts no new poll cycle: at the loop top it ends.
C34_StoppedLoopStartsNoCycle ==
    [][\A i \in told :
          loops[i].pc = "top" => loops'[i].pc \in {"top", "dead"}
      ]_vars

\* C36: there are never two live loop threads, and a loop that was running
\* when stop() set the signal never polls again.
C36_AtMostOneLoop ==
    [][/\ Cardinality(Alive') <= 1
       /\ \A i \in told : loops[i].pc # "read" => loops'[i].pc # "read"
      ]_vars

\* C33: for every command whose handler raised, an error response was sent
\* to the remote caller and no exception left the client's callback into
\* the transport, on both endpoints.
C33_HandlerErrorsAnswered ==
    \A n \in 1..Len(cmd.log) :
        cmd.log[n].handler = "raised"
            => /\ cmd.log[n].sent # << >>
               /\ ~cmd.log[n].propagated

\* The lock a thread is waiting for or about to take at its position: the
\* service lock, the client's connection lock, or the backend lock.
WaitsFor(t) ==
    CASE pc[t] \in {"am_lock", "fl_lock"} -> "svc"
      [] pc[t] \in {"st_check", "st_send", "fl_check", "fl_send", "cc_enter",
                    "cd_enter", "cs_check"} -> "conn"
      [] pc[t] = "cr_check" /\ provider = "azure" -> "conn"
      [] pc[t] \in {"ba_lock", "am_add", "fl_load"} -> "be"
      [] pc[t] = "fl_remove" /\ success_count[t] > 0 -> "be"
      [] OTHER -> "none"

Holder(l) ==
    CASE l = "svc" -> svcLock
      [] l = "conn" -> connLock
      [] l = "be" -> beLock
      [] OTHER -> NoThread

\* C35: the locks are taken in one order (service lock, then connection or
\* backend lock): a thread that holds the connection lock or the backend
\* lock waits for no lock, a thread that waits for the service lock holds
\* none, a lock is held only inside its critical section, no two threads
\* wait for each other, and whenever a call is under way some thread can
\* take a step.
C35_DeadlockFree ==
    /\ \A t \in Threads :
          /\ (connLock = t \/ beLock = t) => WaitsFor(t) = "none"
          /\ WaitsFor(t) = "svc" => (svcLock # t /\ connLock # t /\ beLock # t)
          /\ svcLock = t => pc[t] \in {"am_add", "fl_load", "fl_send", "fl_publish",
                                       "fl_remove", "fl_exit"}
          /\ connLock = t => pc[t] \in {"cc_dial", "fl_publish"}
          /\ beLock = t => pc[t] \in {"ba_load", "ba_save", "ba_insert"}
    /\ ~ \E t, u \in Threads :
          /\ t # u
          /\ WaitsFor(t) # "none" /\ Holder(WaitsFor(t)) = u
          /\ WaitsFor(u) # "none" /\ Holder(WaitsFor(u)) = t
    /\ (\E t \in Threads : pc[t] # "idle")
          => ENABLED (\E t \in Threads :
                         LockSteps(t) \/ CrCheck(t) \/ CrSleep(t) \/ BackendSteps(t))

\* A flush holds the service lock and waits for the backend lock, which the
\* other thread holds inside add_messages.
C35_Witness ==
    /\ svcLock = "main" /\ pc["main"] = "fl_load"
    /\ beLock = "acq" /\ pc["acq"] \in {"ba_load", "ba_save", "ba_insert"}

\* C37: when a flush whose sends all succeeded stops on an empty batch, no
\* well-formed record is left in the backend.
C37_EmptyBatchMeansExhausted ==
    \A t \in Threads :
        (/\ pc[t] = "fl_exit" /\ batch[t] = << >>
         /\ \A j \in 1..Len(log[t]) : log[t][j].ok)
            => WellFormed(storage) = << >>

\* C38: on the JSON backend the removal step of a flush that sent k records
\* leaves the queue as it was without its first k elements, also when equal
\* messages are stored further back.
C38_JsonRemovesFirstK ==
    [][\A t \in Threads :
          (kind = "json" /\ pc[t] = "fl_remove" /\ pc'[t] # pc[t])
              => storage' = SubSeq(storage, success_count[t] + 1, Len(storage))
      ]_vars

\* A flush on the JSON backend has removed the records it sent and stopped,
\* and a record equal to one of those it removed is still stored.
C38_Witness ==
    /\ kind = "json" /\ pc["main"] = "fl_exit"
    /\ success_count["main"] > 0 /\ Len(log["main"]) = success_count["main"] + 1
    /\ Len(storage) = Len(q0["main"]) - success_count["main"]
    /\ \E i \in 1..success_count["main"] : \E j \in 1..Len(storage) :
          q0["main"][i].val = storage[j].val

\* C39: no stored record has its send return true twice: whenever a flush's
\* send of a record returns true, the endpoint had not accepted that record
\* before, in this flush or in any other.
C39_AcceptedAtMostOnce ==
    [][\A t \in Threads :
          (/\ pc[t] = "fl_send" /\ Len(log'[t]) = Len(log[t]) + 1
           /\ log'[t][Len(log'[t])].ok)
              => ~AcceptedUid(log'[t][Len(log'[t])].uid)
      ]_vars

\* C40: the endpoint's disconnect() leaves the endpoint disconnected also
\* when the transport's disconnect raises or times out, does nothing when
\* the endpoint is already disconnected, and a send_telemetry that finds the
\* endpoint disconnected returns False without publishing.
C40_DisconnectEndsDisconnected ==
    [][\A t \in Threads :
          /\ (pc[t] = "cd_enter" /\ pc'[t] # pc[t])
                => /\ ~connected'
                   /\ pc'[t] = "idle" /\ ret'[t] = "none"
                   /\ ~connected =>
                         (clog'[t].transport = "none" /\ UNCHANGED connected)
          /\ (pc[t] = "cs_check" /\ pc'[t] # pc[t] /\ ~connected)
                => /\ pc'[t] = "idle" /\ ret'[t] = "false"
                   /\ clog'[t].publishes = 0
                   /\ UNCHANGED connected
      ]_vars

\* One thread's disconnect() met a transport error and returned, and the
\* other thread's send_telemetry after it has returned False without
\* publishing.
C40_Witness ==
    /\ clog["main"].call = "disconnect" /\ pc["main"] = "idle"
    /\ clog["main"].transport \in {"raised", "timeout"}
    /\ clog["acq"].call = "send" /\ pc["acq"] = "idle"
    /\ ret["acq"] = "false" /\ clog["acq"].publishes = 0
    /\ ~connected

====
